---- MODULE Spec2Model ----
(***************************************************************************)
(* TurboCache-JS: the bounded in-memory adapter (MemoryAdapter), the       *)
(* two-tier adapter (MultiTierAdapter) and the orchestrator (CacheManager) *)
(* as state machines.  Keys are sequences of characters, so that the empty *)
(* key, key prefixes and glob patterns behave as the JavaScript strings do.*)
(***************************************************************************)
EXTENDS Integers, Sequences, FiniteSets, TLC

\* ------------------------------------------------------------------ bounds
MaxTicks == 1        \* how many times the clock advances in a behaviour
MaxLookups == 2      \* cap on hits + misses of one adapter
MaxBatch == 2        \* longest key list / entry list handed to a batch call
MaxTasks == 1        \* tier writes in flight that no caller awaits
StartTime == 5       \* Date.now() when the adapter is constructed
MemMax == 2          \* options.max the adapter under study is configured with

\* ------------------------------------------------------- program constants
MsPerSecond == 1000  \* ttl (seconds) to Date.now() units
DefaultMax == 1000   \* options.max || 1000

\* `undefined` for an optional number (ttl?: number, max?: number)
Undefined == -1
\* `null`, the miss value of get
Null == "null"

\* JavaScript truthiness of an optional number: undefined and 0 are falsy
Truthy(n) == n # Undefined /\ n # 0

\* ------------------------------------------------------------ input domains
EmptyKey == << >>
MemKeys == {EmptyKey, <<"a">>, <<"a", "b">>}
Values == {"v1", "v2"}
TTLs == {Undefined, 1}
Patterns == {<<"*">>, <<"a", "*">>, <<"a">>}
TickSteps == {MsPerSecond, MsPerSecond + 1}

\* ----------------------------------------------------------------- the Map
\* A JavaScript Map<string, CacheEntry>: entries in insertion order, a set of
\* a present key keeps its position.
NoEntry == [key |-> EmptyKey, value |-> "none", expiresAt |-> -1]

MapIndex(cache, k) ==
  IF \E i \in 1..Len(cache) : cache[i].key = k
  THEN CHOOSE i \in 1..Len(cache) : cache[i].key = k
  ELSE 0

MapHas(cache, k) == MapIndex(cache, k) # 0

MapGet(cache, k) == IF MapHas(cache, k) THEN cache[MapIndex(cache, k)] ELSE NoEntry

MapSet(cache, k, e) ==
  IF MapHas(cache, k)
  THEN [cache EXCEPT ![MapIndex(cache, k)] = e]
  ELSE Append(cache, e)

MapDelete(cache, k) == SelectSeq(cache, LAMBDA e : e.key # k)

MapKeys(cache) == [i \in 1..Len(cache) |-> cache[i].key]

KeySet(cache) == {cache[i].key : i \in 1..Len(cache)}

\* ------------------------------------------------------------ MemoryAdapter
\* An adapter's state: the map, the configured max, the two counters.
NewMemory(max) ==
  [cache |-> << >>, max |-> IF Truthy(max) THEN max ELSE DefaultMax,
   hits |-> 0, misses |-> 0]

\* entry.expiresAt && entry.expiresAt < Date.now()
Expired(e, t) == e.expiresAt # 0 /\ e.expiresAt < t

\* get: [store, ret]
MemGet(s, k, t) ==
  IF ~MapHas(s.cache, k)
  THEN [store |-> [s EXCEPT !.misses = @ + 1], ret |-> Null]
  ELSE IF Expired(MapGet(s.cache, k), t)
       THEN [store |-> [s EXCEPT !.cache = MapDelete(@, k), !.misses = @ + 1],
             ret |-> Null]
       ELSE [store |-> [s EXCEPT !.hits = @ + 1], ret |-> MapGet(s.cache, k).value]

\* The eviction step of set: the first key of the map, deleted if truthy.
EvictFirst(cache) ==
  LET firstKey == cache[1].key
  IN IF firstKey # EmptyKey THEN MapDelete(cache, firstKey) ELSE cache

\* set that leaves a key it finds stored as it is (the mutant C4 is tried against)
MemSet_KeepOld(s, k, v, ttl, t) ==
  IF MapHas(s.cache, k) THEN s
  ELSE [s EXCEPT !.cache = Append(@, [key |-> k, value |-> v,
                                      expiresAt |-> IF Truthy(ttl) THEN t + ttl * MsPerSecond ELSE 0])]

\* set: the store after it
MemSet(s, k, v, ttl, t) ==
  LET kept == IF Truthy(s.max) /\ Len(s.cache) >= s.max /\ ~MapHas(s.cache, k)
              THEN EvictFirst(s.cache)
              ELSE s.cache
      expiresAt == IF Truthy(ttl) THEN t + ttl * MsPerSecond ELSE 0
  IN [s EXCEPT !.cache = MapSet(kept, k, [key |-> k, value |-> v, expiresAt |-> expiresAt])]

\* delete of one key
MemDelete(s, k) == [s EXCEPT !.cache = MapDelete(@, k)]

\* delete of an array of keys
RECURSIVE MemDeleteMany(_, _)
MemDeleteMany(s, ks) ==
  IF ks = << >> THEN s ELSE MemDeleteMany(MemDelete(s, Head(ks)), Tail(ks))

\* has without the expiry check (the mutant C1 is tried against)
MemHas_NoExpiry(s, k, t) == [store |-> s, ret |-> MapHas(s.cache, k)]

\* has: [store, ret]; the counters are not touched
MemHas(s, k, t) ==
  IF ~MapHas(s.cache, k)
  THEN [store |-> s, ret |-> FALSE]
  ELSE IF Expired(MapGet(s.cache, k), t)
       THEN [store |-> [s EXCEPT !.cache = MapDelete(@, k)], ret |-> FALSE]
       ELSE [store |-> s, ret |-> TRUE]

\* a sweep that deletes every entry that has an expiry (the mutant C32 is
\* tried against)
MemCleanup_AllWithExpiry(s, t) == [s EXCEPT !.cache = SelectSeq(@, LAMBDA e : e.expiresAt = 0)]

\* cleanup: every entry with a past expiry is deleted
MemCleanup(s, t) == [s EXCEPT !.cache = SelectSeq(@, LAMBDA e : ~Expired(e, t))]

\* mset: one set per entry, in the entries' order
RECURSIVE MemMset(_, _, _, _)
MemMset(s, entries, ttl, t) ==
  IF entries = << >> THEN s
  ELSE MemMset(MemSet(s, Head(entries).key, Head(entries).value, ttl, t),
               Tail(entries), ttl, t)

\* an mget that returns every stored key, a null value too (the mutant C36 is
\* tried against)
MemMget_WithNull(s, ks, t) ==
  LET held == SelectSeq(ks, LAMBDA k : MapHas(s.cache, k) /\ ~Expired(MapGet(s.cache, k), t))
  IN [store |-> s,
      ret |-> [i \in 1..Len(held) |-> [key |-> held[i], value |-> MapGet(s.cache, held[i]).value]]]

\* mget: one get per key, in order; a null value is left out of the result.
\* The result is the sequence of [key, value] pairs found.
RECURSIVE MemMget(_, _, _)
MemMget(s, ks, t) ==
  IF ks = << >> THEN [store |-> s, ret |-> << >>]
  ELSE LET g == MemGet(s, Head(ks), t)
           rest == MemMget(g.store, Tail(ks), t)
       IN [store |-> rest.store,
           ret |-> IF g.ret # Null
                   THEN <<[key |-> Head(ks), value |-> g.ret]>> \o rest.ret
                   ELSE rest.ret]

\* The characters '.' of a RegExp without the s flag does not match: line
\* feed, carriage return, U+2028 and U+2029 (written here by their names)
LineTerminators == {"LF", "CR", "LS", "PS"}

\* patternToRegex + RegExp.test: every character but '*' is literal (the
\* special characters of a RegExp are escaped), '*' is '.*', a run of
\* characters other than line terminators, and the expression is anchored
\* at both ends.
RECURSIVE GlobMatch(_, _)
GlobMatch(p, str) ==
  IF p = << >> THEN str = << >>
  ELSE IF Head(p) = "*"
       THEN \/ GlobMatch(Tail(p), str)
            \/ /\ str # << >> /\ Head(str) \notin LineTerminators
               /\ GlobMatch(p, Tail(str))
       ELSE str # << >> /\ Head(str) = Head(p) /\ GlobMatch(Tail(p), Tail(str))

\* `!pattern`: an undefined pattern and the empty string are both falsy
NoPattern == <<"undefined">>
PatternGiven(p) == p # NoPattern /\ p # << >>

\* a clear that takes no notice of its pattern (the mutant C29 is tried against)
MemClear_Everything(s, p) == [s EXCEPT !.cache = << >>]

\* clear
MemClear(s, p) ==
  IF ~PatternGiven(p) THEN [s EXCEPT !.cache = << >>]
  ELSE [s EXCEPT !.cache = SelectSeq(@, LAMBDA e : ~GlobMatch(p, e.key))]

\* keys
MemKeysOf(s, p) ==
  IF ~PatternGiven(p) THEN MapKeys(s.cache)
  ELSE SelectSeq(MapKeys(s.cache), LAMBDA k : GlobMatch(p, k))

\* stats: cleanup first, then the snapshot
MemStats(s, t) ==
  LET c == MemCleanup(s, t)
  IN [store |-> c, ret |-> [hits |-> c.hits, misses |-> c.misses, keys |-> Len(c.cache)]]

\* --------------------------------------------------------- MultiTierAdapter
DefaultL1TTL == 300   \* options.l1TTL || 300
DefaultL2TTL == 3600  \* options.l2TTL || 3600
HotMax == 1           \* options.max of the hot tier's adapter

TierKeys == {<<"a">>, <<"b">>}
TierPatterns == {NoPattern, <<"a", "*">>}
TierTTLs == {Undefined}   \* every write of these behaviours leaves the ttl out

\* The constructor: each tier's TTL, with its default
TierTTL(tier, configured) ==
  IF Truthy(configured) THEN configured
  ELSE IF tier = "l1" THEN DefaultL1TTL ELSE DefaultL2TTL

L1TTL == TierTTL("l1", Undefined)
L2TTL == TierTTL("l2", Undefined)

\* ttl || this.l1TTL, ttl || this.l2TTL
EffectiveTTL(ttl, tierTTL) == IF Truthy(ttl) THEN ttl ELSE tierTTL

\* A tier is an ICacheAdapter; its entries behave as a MemoryAdapter's do.  The
\* tier's own hit and miss counters are read by stats() alone and are not kept.
Uncounted(s) == [s EXCEPT !.hits = 0, !.misses = 0]

\* A write handed to a tier: set, delete, clear or mset with its arguments
Write(op, key, value, ttl, entries) ==
  [op |-> op, key |-> key, value |-> value, ttl |-> ttl, entries |-> entries]

NoWrite == Write("none", EmptyKey, Null, Undefined, << >>)

\* The tier after write w, the tier's TTL standing in for an omitted ttl
TierApply(s, w, tierTTL, t) ==
  IF w.op = "set" THEN MemSet(s, w.key, w.value, EffectiveTTL(w.ttl, tierTTL), t)
  ELSE IF w.op = "delete" THEN MemDelete(s, w.key)
  ELSE IF w.op = "clear" THEN MemClear(s, w.key)
  ELSE IF w.op = "mset" THEN MemMset(s, w.entries, EffectiveTTL(w.ttl, tierTTL), t)
  ELSE s

\* get that goes on to the cold tier whatever the hot tier answered (the
\* mutant C7 is tried against)
GetAfterHot_Always(l1Value) == [done |-> FALSE, ret |-> l1Value]

\* get, after the hot tier answered: a hit is returned at once
GetAfterHot(l1Value) ==
  IF l1Value # Null THEN [done |-> TRUE, ret |-> l1Value]
  ELSE [done |-> FALSE, ret |-> Null]

\* get after the cold tier answered, without the test for null: the backfill
\* is started on a miss too (the mutant C5 is tried against)
GetAfterCold_Always(key, l2Value, hotTTL) ==
  [ret |-> l2Value, backfill |-> <<Write("set", key, l2Value, hotTTL, << >>)>>]

\* get after the cold tier answered, the backfill forgotten (the mutant C6 is
\* tried against)
GetAfterCold_NoBackfill(key, l2Value, hotTTL) ==
  [ret |-> l2Value, backfill |-> << >>]

\* get, after the cold tier answered: a hit starts the backfill of the hot
\* tier with the hot tier's TTL and is returned; a miss returns null
GetAfterCold(key, l2Value, hotTTL) ==
  IF l2Value # Null
  THEN [ret |-> l2Value, backfill |-> <<Write("set", key, l2Value, hotTTL, << >>)>>]
  ELSE [ret |-> Null, backfill |-> << >>]

\* an mget that asks the cold tier for every key (the mutant C30 is tried
\* against)
MgetMissing_All(ks, l1Results) == ks

\* mget: the keys the hot tier did not resolve
MgetMissing(ks, l1Results) ==
  SelectSeq(ks, LAMBDA k : \A i \in 1..Len(l1Results) : l1Results[i].key # k)

\* mget, after the cold tier answered for the missing keys: what it resolved
\* is written back to the hot tier in one mset and merged over the hot results
MgetAfterCold(l1Results, l2Results, hotTTL) ==
  [ret |-> l1Results \o l2Results,
   backfill |-> IF Len(l2Results) > 0
                THEN <<Write("mset", EmptyKey, Null, hotTTL, l2Results)>>
                ELSE << >>]

\* Promise.all over the two tier writes, given what each has done so far
\* ("ok", "fail" or "pending"): rejected by the first failure, fulfilled when
\* both are done
\* (the mutant C8 is tried against: a failure of a tier write is swallowed)
PromiseAllSwallow(hot, cold) ==
  IF hot = "pending" \/ cold = "pending" THEN "pending" ELSE "ok"

PromiseAll(hot, cold) ==
  IF hot = "fail" \/ cold = "fail" THEN "err"
  ELSE IF hot = "ok" /\ cold = "ok" THEN "ok"
  ELSE "pending"

\* a backfill without its catch handler (the mutant C9 is tried against)
BackfillSettled_Unhandled(ok) == IF ok THEN "stored" ELSE "err"

\* .catch((err) => console.error(...)) on a backfill: a rejection is logged
BackfillSettled(ok) == IF ok THEN "stored" ELSE "logged"

NoCall == [op |-> "none", w |-> NoWrite, hot |-> "none", cold |-> "none"]
TIdle == [op |-> "none", key |-> EmptyKey, keys |-> << >>, ret |-> Null,
          hot |-> "none", cold |-> "none",
          rets |-> << >>, hots |-> << >>, colds |-> << >>, asked |-> << >>,
          w |-> NoWrite]

\* ------------------------------------------------------------- CacheManager
\* constructor: this.namespace = config.namespace || '' and
\* this.defaultTTL = config.defaultTTL || 3600
Namespace == <<"n", "s">>
ManagerDefaultTTL == 3600

\* ttl || this.defaultTTL: a manager that takes a ttl of 0 for an omitted one
\* (the mutant C37 is tried against)
NullishTTL_Falsy(ttl) == IF Truthy(ttl) THEN ttl ELSE ManagerDefaultTTL

\* ttl ?? this.defaultTTL
NullishTTL(ttl) == IF ttl # Undefined THEN ttl ELSE ManagerDefaultTTL

\* buildKey of a manager whose namespace is ns (the empty string when none is
\* configured): the namespace, when there is one, and a colon go before the key
BuildKeyNs(ns, key) == IF ns # << >> THEN ns \o <<":">> \o key ELSE key

\* buildKey of the manager the wrap and decorator behaviours use
BuildKey(key) == BuildKeyNs(Namespace, key)

\* String.prototype.startsWith
StartsWith(str, prefix) ==
  Len(str) >= Len(prefix) /\ SubSeq(str, 1, Len(prefix)) = prefix

\* removeNamespace: the prefix namespace + ":" is cut off a key that starts
\* with it; any other key, and every key when there is no namespace, is
\* returned as it is
RemoveNamespace(ns, fullKey) ==
  IF ns = << >> THEN fullKey
  ELSE LET prefix == ns \o <<":">>
       IN IF StartsWith(fullKey, prefix)
          THEN SubSeq(fullKey, Len(prefix) + 1, Len(fullKey))
          ELSE fullKey

\* clear and keys: const fullPattern = pattern ? this.buildKey(pattern) : undefined
FullPattern(ns, p) == IF PatternGiven(p) THEN BuildKeyNs(ns, p) ELSE NoPattern

\* CacheManager.mget: adapter.mget(fullKeys), then a new Map keyed by
\* removeNamespace(fullKey)
RECURSIVE Normalized(_, _)
Normalized(ns, found) ==
  IF found = << >> THEN << >>
  ELSE LET rest == Normalized(ns, SubSeq(found, 1, Len(found) - 1))
           e == found[Len(found)]
           k == RemoveNamespace(ns, e.key)
       IN MapSet(rest, k, [key |-> k, value |-> e.value])

MgrMget(s, ns, ks, t) ==
  LET fullKeys == [i \in 1..Len(ks) |-> BuildKeyNs(ns, ks[i])]
      r == MemMget(s, fullKeys, t)
  IN [store |-> r.store, fullKeys |-> fullKeys, ret |-> Normalized(ns, r.ret)]

\* CacheManager.mset: a new Map keyed by buildKey(key), adapter.mset(fullEntries,
\* ttl ?? defaultTTL)
MgrMset(s, ns, entries, ttl, t) ==
  MemMset(s, [i \in 1..Len(entries) |->
                [key |-> BuildKeyNs(ns, entries[i].key), value |-> entries[i].value]],
          NullishTTL(ttl), t)

\* CacheManager.keys: adapter.keys(fullPattern), removeNamespace on each key
MgrKeys(s, ns, p) ==
  LET fullKeys == MemKeysOf(s, FullPattern(ns, p))
  IN [i \in 1..Len(fullKeys) |-> RemoveNamespace(ns, fullKeys[i])]

\* CacheManager.clear: adapter.clear(fullPattern)
MgrClear(s, ns, p) == MemClear(s, FullPattern(ns, p))

\* The managers that share the adapter: one without a namespace, the one of
\* the wrap and decorator behaviours, and another one
Namespaces == {<< >>, Namespace, <<"x">>}
NsPatterns == {NoPattern, <<"*">>, <<"a">>}
NIdle == [op |-> "none", ns |-> << >>, keys |-> << >>, pattern |-> NoPattern,
          addr |-> << >>, ret |-> << >>, val |-> "none"]

WrapKeys == {<<"a">>, <<"b">>}

\* What a factory delivers: a value, null, or a rejection
FactoryResults == Values \cup {Null, "throw"}

\* options.condition: absent, or a predicate given by the values it accepts
NoCondition == [given |-> FALSE, accepts |-> {}]
Conditions ==
  {NoCondition} \cup {[given |-> TRUE, accepts |-> S] : S \in {{}, Values \cup {Null}}}

\* options.fallback: absent, a literal, or a function that returns one
Fallbacks == {"absent", "literal", "function"}
FallbackValue == "fb"

WrapOptions == [ttl : TTLs, condition : Conditions, fallback : Fallbacks]

\* const shouldCache = !options?.condition || options.condition(value)
ShouldCache(condition, value) == ~condition.given \/ value \in condition.accepts

\* What a fallback function returns depends on the argument it is called with
FallbackOf(arg) ==
  CASE arg = "factoryError" -> "fb(factoryError)"
    [] arg = "cacheError" -> "fb(cacheError)"
    [] arg = "managerError" -> "fb(managerError)"
    [] arg = "methodError" -> "fb(methodError)"
    [] OTHER -> "fb(undefined)"

\* the catch block of wrap: the fallback when one is configured (a function is
\* called as options.fallback(), without arguments), else the error is thrown
\* again
WrapCatch(fallback, error) ==
  CASE fallback = "literal" -> [threw |-> FALSE, ret |-> FallbackValue]
    [] fallback = "function" -> [threw |-> FALSE, ret |-> FallbackOf("undefined")]
    [] OTHER -> [threw |-> TRUE, ret |-> error]

NoWrap == [pc |-> "none", key |-> EmptyKey, options |-> [ttl |-> Undefined,
           condition |-> NoCondition, fallback |-> "absent"],
           present |-> FALSE, cached |-> Null, invoked |-> 0, computed |-> "none"]

WIdle == [op |-> "none", key |-> EmptyKey, options |-> NoWrap.options,
          lookup |-> "none", present |-> FALSE, cached |-> Null, invoked |-> 0,
          computed |-> "none", threw |-> FALSE, ret |-> Null, stored |-> FALSE]

\* --------------------------------------------------------------- decorators
MaxStores == 1   \* stores started by a decorator and not yet settled

\* What a decorated method delivers: a value, null, or a rejection
MethodResults == {"v1", Null, "throw"}

\* The options of the three decorators in one record.  condition and unless
\* are predicates on the result, absent or given by the results they hold for.
NoOptions ==
  [ttl |-> Undefined, condition |-> NoCondition, unless |-> NoCondition,
   fallback |-> "absent", keyGiven |-> TRUE, allEntries |-> FALSE,
   beforeInvocation |-> FALSE, namespace |-> NoPattern]

\* TurboCacheOptions (stampedeLock is read nowhere; includeMetadata is off)
CacheOptions ==
  {[NoOptions EXCEPT !.condition = c, !.unless = u, !.fallback = f] :
     c \in Conditions, u \in Conditions, f \in {"absent", "function"}}

\* TurboCacheEvictOptions.condition: absent, or a predicate that rejects
\* everything, accepts everything, or accepts a value and rejects null
EvictConditions == Conditions \cup {[given |-> TRUE, accepts |-> Values]}

\* TurboCacheEvictOptions
EvictOptions ==
  {[NoOptions EXCEPT !.condition = c, !.keyGiven = ~a, !.allEntries = a,
                     !.beforeInvocation = b] :
     c \in EvictConditions, a \in BOOLEAN, b \in BOOLEAN}

\* TurboCacheEvictOptions with allEntries and a namespace option
OptionNamespaces == {<<"a">>, <<"b">>}
EvictAllOptions ==
  {[NoOptions EXCEPT !.keyGiven = FALSE, !.allEntries = TRUE, !.beforeInvocation = b,
                     !.namespace = n] :
     b \in BOOLEAN, n \in OptionNamespaces}

\* Keys of the callers of the manager, inside and outside those namespaces
GroupedKeys == {<<"a">>, <<"a", ":", "a">>, <<"a", ":", "b">>, <<"b", ":", "a">>}

\* TurboCachePutOptions
PutOptions ==
  {[NoOptions EXCEPT !.ttl = ttl, !.condition = c] : ttl \in TTLs, c \in Conditions}

\* checkCachingConditions without its unless test (the mutant C16 is tried
\* against)
CheckCachingConditions_NoUnless(options, result) ==
  ~(options.condition.given /\ result \notin options.condition.accepts)

\* checkCachingConditions: unless first (skip if true), then condition
CheckCachingConditions(options, result) ==
  IF options.unless.given /\ result \in options.unless.accepts THEN FALSE
  ELSE IF options.condition.given /\ result \notin options.condition.accepts THEN FALSE
  ELSE TRUE

\* a catch block that takes no notice of the fallback (the mutant C40 is tried
\* against)
CacheCatch_Rethrow(fallback, error) == [threw |-> TRUE, ret |-> error]

\* the catch block of @TurboCache: the fallback when one is configured (a
\* function is called with the error), else the error is thrown again
CacheCatch(fallback, error) ==
  CASE fallback = "literal" -> [threw |-> FALSE, ret |-> FallbackValue]
    [] fallback = "function" -> [threw |-> FALSE, ret |-> FallbackOf(error)]
    [] OTHER -> [threw |-> TRUE, ret |-> error]

\* CacheManager.clear: pattern ? this.buildKey(pattern) : undefined
ClearPattern(p) == FullPattern(Namespace, p)

\* an evictCache that takes no notice of the condition (the mutant C31 is
\* tried against)
EvictCalls_Unconditional(options, result) == options.allEntries \/ options.keyGiven

\* evictCache, the condition: if (options.condition && !options.condition(result, ...args)) return
\* and whether a call to the manager follows
EvictCalls(options, result) ==
  /\ ~(options.condition.given /\ result \notin options.condition.accepts)
  /\ (options.allEntries \/ options.keyGiven)

\* an eviction that removes nothing (the mutant C14 is tried against)
EvictApply_Nothing(s, options, k) == s

\* evictCache, the call: cacheManager.clear(options.namespace) for allEntries,
\* else cacheManager.delete(cacheKey)
EvictApply(s, options, k) ==
  IF options.allEntries THEN MemClear(s, ClearPattern(options.namespace))
  ELSE MemDelete(s, BuildKey(k))

\* a store that loses the result (the mutant C11 is tried against)
StoreTask_Lost(k, v, ttl) == [key |-> k, value |-> Null, ttl |-> ttl]

\* A store started and not awaited: cacheManager.set(cacheKey, result, options.ttl)
StoreTask(k, v, ttl) == [key |-> k, value |-> v, ttl |-> ttl]
NoStore == StoreTask(EmptyKey, Null, Undefined)

\* ------------------------------------------------------------ KeyGenerator
\* A JavaScript value handed as a call argument: its type, its text (the
\* string itself, String(value) of a number, the JSON text of an object) and
\* the properties of an object as name/value pairs
JSValue(type, str, props) == [type |-> type, str |-> str, props |-> props]
UndefinedValue == JSValue("undefined", "", << >>)
NullValue == JSValue("null", "", << >>)
Str42 == JSValue("string", "42", << >>)
Str7 == JSValue("string", "7", << >>)
Obj7 == JSValue("object", "{id:7}", <<[name |-> "id", val |-> Str7]>>)
ObjUser == JSValue("object", "{user:{id:7}}", <<[name |-> "user", val |-> Obj7]>>)
JSValues == {UndefinedValue, NullValue, Str42, Obj7, ObjUser}
ArgLists == UNION {[1..n -> JSValues] : n \in 0..2}

\* A key pattern is a sequence of pieces: literal text, or a selector #{expr}
\* given by the parts of expr between its dots
Lit(text) == [kind |-> "lit", text |-> text, parts |-> << >>]
Sel(parts) == [kind |-> "sel", text |-> "", parts |-> parts]
KeyTokens ==
  {Lit("user:"), Sel(<<"0">>), Sel(<<"1">>), Sel(<<"0", "id">>), Sel(<<"0", "user", "id">>),
   Sel(<<"id">>), Sel(<<"user", "id">>), Sel(<< >>)}
KeyPatterns == UNION {[1..n -> KeyTokens] : n \in 1..2}

\* /^\d+$/.test(part) and parseInt(part, 10)
IsIndex(part) == part \in {"0", "1", "2"}
ParseInt(part) == CASE part = "0" -> 0 [] part = "1" -> 1 [] OTHER -> 2

\* args[index]
ArgAt(args, index) == IF index < Len(args) THEN args[index + 1] ELSE UndefinedValue

\* value[prop] of a value that is neither null nor undefined
PropOf(value, prop) ==
  IF \E i \in 1..Len(value.props) : value.props[i].name = prop
  THEN value.props[CHOOSE i \in 1..Len(value.props) : value.props[i].name = prop].val
  ELSE UndefinedValue

\* stringify with null rendered as text (the mutant C22 is tried against)
Stringify_NullText(value) == IF value.type = "null" THEN "null" ELSE value.str

\* stringify: '' for null and undefined, the string, String(number),
\* JSON.stringify(object)
Stringify(value) ==
  IF value.type \in {"null", "undefined"} THEN "" ELSE value.str

\* evaluatePropertyAccess, the loop: for (const prop of parts)
RECURSIVE Navigate(_, _)
Navigate(value, parts) ==
  IF parts = << >> THEN Stringify(value)
  ELSE IF value.type \in {"null", "undefined"} THEN ""
  ELSE Navigate(PropOf(value, Head(parts)), Tail(parts))

\* evaluatePropertyAccess: parts.shift() only when the first part is an index
EvaluatePropertyAccess(parts, args) ==
  IF IsIndex(Head(parts))
  THEN Navigate(ArgAt(args, ParseInt(Head(parts))), Tail(parts))
  ELSE Navigate(ArgAt(args, 0), parts)

\* evaluateExpression
EvaluateExpression(parts, args) ==
  IF Len(parts) = 1 /\ IsIndex(parts[1]) THEN Stringify(ArgAt(args, ParseInt(parts[1])))
  ELSE IF Len(parts) >= 2 THEN EvaluatePropertyAccess(parts, args)
  ELSE Stringify(ArgAt(args, 0))

\* The pieces of a key that are not empty, in order: the key as a string
Joined(pieces) == SelectSeq(pieces, LAMBDA s : s # "")

\* parseExpression: pattern.replace(/#\{([^}]+)\}/g, ...); an empty #{} does
\* not match the expression and stays in the key as it is
ParseExpression(pattern, args) ==
  Joined([i \in 1..Len(pattern) |->
            IF pattern[i].kind = "lit" THEN pattern[i].text
            ELSE IF pattern[i].parts = << >> THEN "#{}"
            ELSE EvaluateExpression(pattern[i].parts, args)])

KIdle == [pattern |-> << >>, args |-> << >>, key |-> << >>]

\* Concurrent callers of one decorated method
Callers == {1, 2}
MaxCalls == 2   \* calls each caller makes
NoRace == [pc |-> "idle", key |-> EmptyKey, lock |-> FALSE, ret |-> Null,
           invoked |-> FALSE, calls |-> 0]

NoDeco == [pc |-> "none", op |-> "none", key |-> EmptyKey, options |-> NoOptions,
           present |-> FALSE, result |-> "none", evicted |-> FALSE]

DIdle == [op |-> "none", key |-> EmptyKey, options |-> NoOptions,
          manager |-> "none", lookup |-> "none", present |-> FALSE,
          cached |-> Null, invoked |-> 0, result |-> "none", threw |-> FALSE,
          ret |-> Null, started |-> FALSE, evicted |-> FALSE, task |-> NoStore]

\* --------------------------------------------------------------- the state
VARIABLES
  now,      \* Date.now()
  ticks,    \* how many times the clock advanced
  mem,      \* the MemoryAdapter under study
  last,     \* the most recent call on mem, as its caller saw it: op and key,
            \* ret (what it returned), pre (the stored entry of the key just
            \* before the call) and setv (for a get: the value written when the
            \* call right before it was a set of the same key)
  l1,       \* MultiTierAdapter: the hot tier
  l2,       \* MultiTierAdapter: the cold tier
  call,     \* the MultiTierAdapter call in progress, between two awaits
  tasks,    \* tier writes in flight that no caller awaits: the backfills
  tlast,    \* what the step just taken delivered to a caller (or logged)
  clean,    \* no tier operation has failed so far and no call was started
            \* while a write of an earlier call was still in flight
  store,    \* the adapter behind the CacheManager
  wcall,    \* the CacheManager.wrap call in progress, between two awaits
  dcall,    \* the decorated call in progress, between two awaits
  stores,   \* the stores started by decorators and not awaited, oldest first
  dlast,    \* what the decorated call that returned in the step just taken
            \* delivered (or what the store that settled in it did)
  wlast,    \* what the CacheManager call that returned in the step just taken
            \* delivered: for a wrap, also what its lookup found (present,
            \* cached), how often it invoked the factory and with what
            \* result (invoked, computed) and whether it stored the value
  nlast,    \* what the call just made through one of the managers that share
            \* the adapter did: the manager's namespace (ns), the caller's
            \* keys and pattern, the adapter keys or pattern it addressed
            \* (addr), the keys it returned (ret) and its value (val)
  racing,   \* the calls of one @TurboCache method by concurrent callers: for
            \* each caller where its call stands (pc), its key, whether the
            \* method is decorated with stampedeLock and what it returned
  klast     \* the key the KeyGenerator call just made produced, with the
            \* pattern and the arguments it was made with

memVars == <<now, ticks, mem, last>>
tierVars == <<l1, l2, call, tasks, tlast, clean>>
mgrVars == <<store, wcall, wlast>>
nsVars == <<nlast>>
raceVars == <<racing>>
keyVars == <<klast>>
decoVars == <<dcall, stores, dlast>>
vars == <<now, ticks, mem, last, l1, l2, call, tasks, tlast, clean, store, wcall, wlast,
          dcall, stores, dlast, nlast, racing, klast>>

\* A key is live in a store: stored there and not past its expiry.
Live(s, k) == MapHas(s.cache, k) /\ ~Expired(MapGet(s.cache, k), now)

Idle == [op |-> "none", key |-> EmptyKey, ret |-> Null, pre |-> NoEntry, setv |-> "none"]

\* Key lists and entry lists handed to the batch calls
KeyLists(lo) ==
  {ks \in UNION {[1..n -> MemKeys] : n \in lo..MaxBatch} :
     \A i, j \in 1..Len(ks) : i # j => ks[i] # ks[j]}

EntriesOf(ks, v) == [i \in 1..Len(ks) |-> [key |-> ks[i], value |-> v]]

\* ------------------------------------------------ MemoryAdapter behaviours
Init ==
  /\ now = StartTime
  /\ ticks = 0
  /\ mem = NewMemory(MemMax)
  /\ last = Idle
  /\ l1 = NewMemory(HotMax)
  /\ l2 = NewMemory(Undefined)
  /\ call = NoCall
  /\ tasks = << >>
  /\ tlast = TIdle
  /\ clean = TRUE
  /\ store = NewMemory(Undefined)
  /\ wcall = NoWrap
  /\ wlast = WIdle
  /\ dcall = NoDeco
  /\ stores = << >>
  /\ dlast = DIdle
  /\ nlast = NIdle
  /\ racing = [c \in Callers |-> NoRace]
  /\ klast = KIdle

\* Time passes between two calls.
Tick(d) ==
  /\ ticks < MaxTicks
  /\ now' = now + d
  /\ ticks' = ticks + 1
  /\ last' = Idle
  /\ UNCHANGED <<mem, tierVars, mgrVars, decoVars, nsVars, raceVars, keyVars>>

Get(k) ==
  /\ mem.hits + mem.misses < MaxLookups
  /\ mem' = MemGet(mem, k, now).store
  /\ last' = [op |-> "get", key |-> k, ret |-> MemGet(mem, k, now).ret,
              pre |-> MapGet(mem.cache, k),
              setv |-> IF last.op = "set" /\ last.key = k THEN last.ret ELSE "none"]
  /\ UNCHANGED <<now, ticks, tierVars, mgrVars, decoVars, nsVars, raceVars, keyVars>>

Has(k) ==
  /\ mem' = MemHas(mem, k, now).store
  /\ last' = [Idle EXCEPT !.op = "has", !.key = k,
                          !.ret = IF MemHas(mem, k, now).ret THEN "true" ELSE "false",
                          !.pre = MapGet(mem.cache, k)]
  /\ UNCHANGED <<now, ticks, tierVars, mgrVars, decoVars, nsVars, raceVars, keyVars>>

Set(k, v, ttl) ==
  /\ mem' = MemSet(mem, k, v, ttl, now)
  /\ last' = [Idle EXCEPT !.op = "set", !.key = k, !.ret = v]
  /\ UNCHANGED <<now, ticks, tierVars, mgrVars, decoVars, nsVars, raceVars, keyVars>>

Delete(k) ==
  /\ mem' = MemDelete(mem, k)
  /\ last' = [Idle EXCEPT !.op = "delete"]
  /\ UNCHANGED <<now, ticks, tierVars, mgrVars, decoVars, nsVars, raceVars, keyVars>>

DeleteMany(ks) ==
  /\ mem' = MemDeleteMany(mem, ks)
  /\ last' = [Idle EXCEPT !.op = "delete"]
  /\ UNCHANGED <<now, ticks, tierVars, mgrVars, decoVars, nsVars, raceVars, keyVars>>

Clear(p) ==
  /\ mem' = MemClear(mem, p)
  /\ last' = [Idle EXCEPT !.op = "clear"]
  /\ UNCHANGED <<now, ticks, tierVars, mgrVars, decoVars, nsVars, raceVars, keyVars>>

Mget(ks) ==
  /\ mem.hits + mem.misses + Len(ks) <= MaxLookups
  /\ mem' = MemMget(mem, ks, now).store
  /\ last' = [Idle EXCEPT !.op = "mget", !.key = ks, !.ret = MemMget(mem, ks, now).ret]
  /\ UNCHANGED <<now, ticks, tierVars, mgrVars, decoVars, nsVars, raceVars, keyVars>>

Mset(ks, v, ttl) ==
  /\ mem' = MemMset(mem, EntriesOf(ks, v), ttl, now)
  /\ last' = [Idle EXCEPT !.op = "mset"]
  /\ UNCHANGED <<now, ticks, tierVars, mgrVars, decoVars, nsVars, raceVars, keyVars>>

Keys(p) ==
  /\ last' = [Idle EXCEPT !.op = "keys", !.key = p, !.ret = MemKeysOf(mem, p)]
  /\ UNCHANGED <<now, ticks, mem, tierVars, mgrVars, decoVars, nsVars, raceVars, keyVars>>

\* The oldest entry of the map that the sweep finds expired (pre of the
\* sweep's record), if there is one
FirstExpired(s, t) ==
  LET gone == SelectSeq(s.cache, LAMBDA e : Expired(e, t))
  IN IF gone = << >> THEN NoEntry ELSE Head(gone)

Stats ==
  /\ mem' = MemStats(mem, now).store
  /\ last' = [Idle EXCEPT !.op = "stats", !.ret = MemStats(mem, now).ret,
                          !.pre = FirstExpired(mem, now)]
  /\ UNCHANGED <<now, ticks, tierVars, mgrVars, decoVars, nsVars, raceVars, keyVars>>

\* The setInterval callback of the constructor
Cleanup ==
  /\ mem' = MemCleanup(mem, now)
  /\ last' = [Idle EXCEPT !.op = "cleanup", !.pre = FirstExpired(mem, now)]
  /\ UNCHANGED <<now, ticks, tierVars, mgrVars, decoVars, nsVars, raceVars, keyVars>>

\* The single-key operations, the sweep and the clock.  mset, mget, delete of
\* an array and stats are compositions of these on the same map (a set per
\* entry, a get per key, a delete per key, the sweep), so they reach no other
\* state of the adapter; they are exercised by SpecMemBatch.
MemNext ==
  \/ \E d \in TickSteps : Tick(d)
  \/ \E k \in MemKeys : Get(k)
  \/ \E k \in MemKeys : Has(k)
  \/ \E k \in MemKeys, v \in Values, ttl \in TTLs : Set(k, v, ttl)
  \/ \E k \in MemKeys : Delete(k)
  \/ \E p \in Patterns \cup {NoPattern} : Clear(p)
  \/ Cleanup

SpecMem == Init /\ [][MemNext]_vars

\* The batch and listing operations beside set and delete, at one instant.
MemBatchNext ==
  \/ \E k \in MemKeys, v \in Values, ttl \in TTLs : Set(k, v, ttl)
  \/ \E k \in MemKeys : Delete(k)
  \/ \E ks \in KeyLists(2) : DeleteMany(ks)
  \/ \E p \in Patterns \cup {NoPattern} : Clear(p)
  \/ \E ks \in KeyLists(1) : Mget(ks)
  \/ \E ks \in KeyLists(2), v \in Values, ttl \in TTLs : Mset(ks, v, ttl)
  \/ \E p \in Patterns \cup {NoPattern} : Keys(p)
  \/ Stats

SpecMemBatch == Init /\ [][MemBatchNext]_vars

\* The sweep, by the timer and by stats(), between sets and gets as time passes
SweepNext ==
  \/ \E d \in TickSteps : Tick(d)
  \/ \E k \in MemKeys, ttl \in TTLs : Set(k, "v1", ttl)
  \/ \E k \in MemKeys : Get(k)
  \/ Stats
  \/ Cleanup

SpecSweep == Init /\ [][SweepNext]_vars

\* ----------------------------------------------- MultiTierAdapter behaviours
\* One call at a time is in progress; every await of it is a step, taken with
\* the tier operation it waits for succeeding (ok) or failing.  Writes nobody
\* awaits (the backfills) are in tasks and land at any later moment.

Other(tier) == IF tier = "l1" THEN "l2" ELSE "l1"

Outcome(ok) == IF ok THEN "ok" ELSE "fail"

Task(kind, tier, w, got) == [kind |-> kind, tier |-> tier, w |-> w, got |-> got]

Remove(seq, i) == [j \in 1..(Len(seq) - 1) |-> IF j < i THEN seq[j] ELSE seq[j + 1]]

TierKeyLists ==
  {ks \in UNION {[1..n -> TierKeys] : n \in 1..MaxBatch} :
     \A i, j \in 1..Len(ks) : i # j => ks[i] # ks[j]}

\* The writes a caller can ask for
TierWrites ==
  {Write("set", k, v, ttl, << >>) : k \in TierKeys, v \in Values, ttl \in TierTTLs}
  \cup {Write("delete", k, Null, Undefined, << >>) : k \in TierKeys}
  \cup {Write("clear", p, Null, Undefined, << >>) : p \in TierPatterns}
  \cup {Write("mset", EmptyKey, Null, ttl, EntriesOf(ks, v)) :
          ks \in {x \in TierKeyLists : Len(x) > 1}, v \in Values, ttl \in TierTTLs}

\* get: const l1Value = await this.l1.get(key)
TierGetHot(k, ok) ==
  /\ call = NoCall
  /\ Len(tasks) < MaxTasks
  /\ LET r == MemGet(l1, k, now)
         a == GetAfterHot(r.ret)
     IN IF ~ok
        THEN /\ tlast' = [TIdle EXCEPT !.op = "get", !.key = k, !.ret = "err",
                                       !.hot = "fail", !.cold = "unqueried"]
             /\ UNCHANGED <<l1, call>>
        ELSE /\ l1' = Uncounted(r.store)
             /\ IF a.done
                THEN /\ tlast' = [TIdle EXCEPT !.op = "get", !.key = k, !.ret = a.ret,
                                               !.hot = r.ret, !.cold = "unqueried"]
                     /\ UNCHANGED call
                ELSE /\ tlast' = TIdle
                     /\ call' = [op |-> "get", w |-> Write("get", k, r.ret, Undefined, << >>),
                                 hot |-> "ok", cold |-> "pending"]
  /\ clean' = (clean /\ ok /\ tasks = << >>)
  /\ UNCHANGED <<l2, tasks, memVars, mgrVars, decoVars, nsVars, raceVars, keyVars>>

\* get: const l2Value = await this.l2.get(key), the backfill, the return
TierGetCold(ok) ==
  /\ call.op = "get" /\ call.cold = "pending"
  /\ LET k == call.w.key
         r == MemGet(l2, k, now)
         a == GetAfterCold(k, r.ret, L1TTL)
     IN IF ~ok
        THEN /\ tlast' = [TIdle EXCEPT !.op = "get", !.key = k, !.ret = "err",
                                       !.hot = call.w.value, !.cold = "fail"]
             /\ UNCHANGED <<l2, tasks>>
        ELSE /\ l2' = Uncounted(r.store)
             /\ tasks' = tasks \o [i \in 1..Len(a.backfill) |->
                                     Task("backfill", "l1", a.backfill[i],
                                          <<[key |-> k, value |-> a.ret]>>)]
             /\ tlast' = [TIdle EXCEPT !.op = "get", !.key = k, !.ret = a.ret,
                                       !.hot = call.w.value, !.cold = r.ret]
  /\ call' = NoCall
  /\ clean' = (clean /\ ok)
  /\ UNCHANGED <<l1, memVars, mgrVars, decoVars, nsVars, raceVars, keyVars>>

\* mget: const l1Results = await this.l1.mget(keys)
TierMgetHot(ks, ok) ==
  /\ call = NoCall
  /\ Len(tasks) < MaxTasks
  /\ LET r == MemMget(l1, ks, now)
         missing == MgetMissing(ks, r.ret)
     IN IF ~ok
        THEN /\ tlast' = [TIdle EXCEPT !.op = "mget", !.keys = ks, !.ret = "err",
                                       !.hot = "fail", !.cold = "unqueried"]
             /\ UNCHANGED <<l1, call>>
        ELSE /\ l1' = Uncounted(r.store)
             /\ IF Len(missing) = 0
                THEN /\ tlast' = [TIdle EXCEPT !.op = "mget", !.keys = ks, !.ret = "ok",
                                               !.rets = r.ret, !.hot = "ok",
                                               !.hots = r.ret, !.cold = "unqueried"]
                     /\ UNCHANGED call
                ELSE /\ tlast' = TIdle
                     /\ call' = [op |-> "mget", w |-> Write("mget", ks, Null, Undefined, r.ret),
                                 hot |-> "ok", cold |-> "pending"]
  /\ clean' = (clean /\ ok /\ tasks = << >>)
  /\ UNCHANGED <<l2, tasks, memVars, mgrVars, decoVars, nsVars, raceVars, keyVars>>

\* mget: const l2Results = await this.l2.mget(missingKeys), the backfill, the
\* merge and the return
TierMgetCold(ok) ==
  /\ call.op = "mget" /\ call.cold = "pending"
  /\ LET ks == call.w.key
         l1Results == call.w.entries
         r == MemMget(l2, MgetMissing(ks, l1Results), now)
         a == MgetAfterCold(l1Results, r.ret, L1TTL)
     IN IF ~ok
        THEN /\ tlast' = [TIdle EXCEPT !.op = "mget", !.keys = ks, !.ret = "err",
                                       !.hot = "ok", !.hots = l1Results,
                                       !.cold = "fail"]
             /\ UNCHANGED <<l2, tasks>>
        ELSE /\ l2' = Uncounted(r.store)
             /\ tasks' = tasks \o [i \in 1..Len(a.backfill) |->
                                     Task("backfill", "l1", a.backfill[i], r.ret)]
             /\ tlast' = [TIdle EXCEPT !.op = "mget", !.keys = ks, !.ret = "ok",
                                       !.rets = a.ret, !.hot = "ok",
                                       !.hots = l1Results, !.cold = "ok",
                                       !.colds = r.ret,
                                       !.asked = MgetMissing(ks, l1Results)]
  /\ call' = NoCall
  /\ clean' = (clean /\ ok)
  /\ UNCHANGED <<l1, memVars, mgrVars, decoVars, nsVars, raceVars, keyVars>>

\* set, delete, clear, mset: Promise.all([this.l1.op(...), this.l2.op(...)]);
\* the first of the two writes to settle.  Its failure rejects the call at
\* once, while the other write is still in flight.
TierWriteStart(w, tier, ok) ==
  /\ call = NoCall
  /\ LET hot == IF tier = "l1" THEN Outcome(ok) ELSE "pending"
         cold == IF tier = "l2" THEN Outcome(ok) ELSE "pending"
     IN /\ l1' = IF tier = "l1" /\ ok THEN Uncounted(TierApply(l1, w, L1TTL, now)) ELSE l1
        /\ l2' = IF tier = "l2" /\ ok THEN Uncounted(TierApply(l2, w, L2TTL, now)) ELSE l2
        /\ call' = [op |-> w.op, w |-> w, hot |-> hot, cold |-> cold]
        /\ tlast' = IF PromiseAll(hot, cold) = "pending" THEN TIdle
                    ELSE [TIdle EXCEPT !.op = w.op, !.key = w.key, !.w = w,
                                       !.ret = PromiseAll(hot, cold),
                                       !.hot = hot, !.cold = cold]
  /\ clean' = (clean /\ ok /\ tasks = << >>)
  /\ UNCHANGED <<tasks, memVars, mgrVars, decoVars, nsVars, raceVars, keyVars>>

\* the same, started while fewer than MaxTasks backfills are in flight
TierWriteFirst(w, tier, ok) == Len(tasks) < MaxTasks /\ TierWriteStart(w, tier, ok)

\* the second of the two writes to settle; the call returns now, unless the
\* first write's failure has rejected it already
TierWriteSecond(ok) ==
  /\ call.op \in {"set", "delete", "clear", "mset"}
  /\ LET tier == IF call.hot = "pending" THEN "l1" ELSE "l2"
         hot == IF tier = "l1" THEN Outcome(ok) ELSE call.hot
         cold == IF tier = "l2" THEN Outcome(ok) ELSE call.cold
         w == call.w
     IN /\ l1' = IF tier = "l1" /\ ok THEN Uncounted(TierApply(l1, w, L1TTL, now)) ELSE l1
        /\ l2' = IF tier = "l2" /\ ok THEN Uncounted(TierApply(l2, w, L2TTL, now)) ELSE l2
        /\ tlast' = IF PromiseAll(call.hot, call.cold) # "pending"
                    THEN [TIdle EXCEPT !.op = "late", !.key = w.key, !.w = w,
                                       !.ret = Outcome(ok),
                                       !.hot = hot, !.cold = cold]
                    ELSE [TIdle EXCEPT !.op = w.op, !.key = w.key, !.w = w,
                                       !.ret = PromiseAll(hot, cold),
                                       !.hot = hot, !.cold = cold]
  /\ call' = NoCall
  /\ clean' = (clean /\ ok)
  /\ UNCHANGED <<tasks, memVars, mgrVars, decoVars, nsVars, raceVars, keyVars>>

\* A backfill settles: its rejection goes to its catch handler.
TaskLands(i, ok) ==
  /\ i \in 1..Len(tasks)
  /\ LET task == tasks[i]
     IN /\ l1' = IF task.tier = "l1" /\ ok
                 THEN Uncounted(TierApply(l1, task.w, L1TTL, now)) ELSE l1
        /\ l2' = IF task.tier = "l2" /\ ok
                 THEN Uncounted(TierApply(l2, task.w, L2TTL, now)) ELSE l2
        /\ tlast' = [TIdle EXCEPT !.op = task.kind, !.key = task.w.key,
                                  !.ret = BackfillSettled(ok),
                                  !.w = task.w, !.colds = task.got]
  /\ tasks' = Remove(tasks, i)
  /\ clean' = (clean /\ ok)
  /\ UNCHANGED <<call, memVars, mgrVars, decoVars, nsVars, raceVars, keyVars>>

TierNext ==
  \/ \E k \in TierKeys, ok \in BOOLEAN : TierGetHot(k, ok)
  \/ \E ok \in BOOLEAN : TierGetCold(ok)
  \/ \E ks \in TierKeyLists, ok \in BOOLEAN : TierMgetHot(ks, ok)
  \/ \E ok \in BOOLEAN : TierMgetCold(ok)
  \/ \E w \in TierWrites, tier \in {"l1", "l2"}, ok \in BOOLEAN : TierWriteFirst(w, tier, ok)
  \/ \E ok \in BOOLEAN : TierWriteSecond(ok)
  \/ \E i \in 1..MaxTasks, ok \in BOOLEAN : TaskLands(i, ok)

SpecTier == Init /\ [][TierNext]_vars

\* The single-key calls of the MultiTierAdapter alone: get, set and delete.
TierSingleNext ==
  \/ \E k \in TierKeys, ok \in BOOLEAN : TierGetHot(k, ok)
  \/ \E ok \in BOOLEAN : TierGetCold(ok)
  \/ \E w \in {x \in TierWrites : x.op \in {"set", "delete"}},
        tier \in {"l1", "l2"}, ok \in BOOLEAN : TierWriteFirst(w, tier, ok)
  \/ \E ok \in BOOLEAN : TierWriteSecond(ok)
  \/ \E i \in 1..MaxTasks, ok \in BOOLEAN : TaskLands(i, ok)

\* Every write handed to a tier settles: its promise is fulfilled or rejected.
\* (tasks holds the writes in flight oldest first.)
FairSpecTier ==
  /\ Init /\ [][TierSingleNext]_vars
  /\ \A i \in 1..MaxTasks : WF_vars(\E ok \in BOOLEAN : TaskLands(i, ok))

\* The writes of set and mset with the ttl argument left out or given: 0, a
\* minute
ExplicitTTLs == {Undefined, 0, 60}

TtlWrites ==
  {Write("set", k, v, ttl, << >>) : k \in TierKeys, v \in Values, ttl \in ExplicitTTLs}
  \cup {Write("mset", EmptyKey, Null, ttl, EntriesOf(ks, v)) :
          ks \in {x \in TierKeyLists : Len(x) > 1}, v \in Values, ttl \in ExplicitTTLs}

TierTtlNext ==
  \/ \E w \in TtlWrites, tier \in {"l1", "l2"}, ok \in BOOLEAN : TierWriteFirst(w, tier, ok)
  \/ \E ok \in BOOLEAN : TierWriteSecond(ok)

SpecTierTtl == Init /\ [][TierTtlNext]_vars

\* get, set and delete of a MultiTierAdapter whose tier operations all
\* succeed; only a backfill may fail.  A set or delete starts whether or not
\* a backfill is in flight.  One call at a time is in progress and every set
\* or delete writes both tiers, so between two calls the cold tier
\* lacks a key exactly when the key was never set or a delete of it has
\* completed on both tiers with no set issued since.
TierStaleNext ==
  \/ \E k \in TierKeys : TierGetHot(k, TRUE)
  \/ TierGetCold(TRUE)
  \/ \E w \in {x \in TierWrites : x.op \in {"set", "delete"}}, tier \in {"l1", "l2"} :
        TierWriteStart(w, tier, TRUE)
  \/ TierWriteSecond(TRUE)
  \/ \E i \in 1..MaxTasks, ok \in BOOLEAN : TaskLands(i, ok)

SpecTierStale == Init /\ [][TierStaleNext]_vars

\* Concurrent set calls: each hands its two tier writes to the tiers at once
\* (Promise.all over l1.set and l2.set), and the writes in flight, of one
\* call or of several, land in any order.  No write fails.
MaxWrites == 4   \* tier writes in flight (two per set call)

TierSetIssued(k, v) ==
  /\ call = NoCall
  /\ Len(tasks) + 2 <= MaxWrites
  /\ LET w == Write("set", k, v, Undefined, << >>)
     IN tasks' = tasks \o <<Task("set", "l1", w, << >>), Task("set", "l2", w, << >>)>>
  /\ tlast' = TIdle
  /\ UNCHANGED <<l1, l2, call, clean, memVars, mgrVars, decoVars, nsVars, raceVars, keyVars>>

ConcurrentSetNext ==
  \/ \E k \in TierKeys, v \in Values : TierSetIssued(k, v)
  \/ \E i \in 1..MaxWrites : TaskLands(i, TRUE)

SpecConcurrentSet == Init /\ [][ConcurrentSetNext]_vars

\* --------------------------------------------------- CacheManager behaviours
\* CacheManager.set by some caller: adapter.set(fullKey, value, ttl ?? defaultTTL)
MgrSet(k, v, ttl, ok) ==
  /\ store' = IF ok THEN Uncounted(MemSet(store, BuildKey(k), v, NullishTTL(ttl), now))
              ELSE store
  /\ wlast' = [WIdle EXCEPT !.op = "set", !.key = k, !.threw = ~ok,
                            !.ret = IF ok THEN Null ELSE "cacheError"]
  /\ dlast' = DIdle
  /\ UNCHANGED <<wcall, dcall, stores, memVars, tierVars, nsVars, raceVars, keyVars>>

\* CacheManager.delete by some caller: adapter.delete(fullKey)
MgrDelete(k, ok) ==
  /\ store' = IF ok THEN Uncounted(MemDelete(store, BuildKey(k))) ELSE store
  /\ wlast' = [WIdle EXCEPT !.op = "delete", !.key = k, !.threw = ~ok,
                            !.ret = IF ok THEN Null ELSE "cacheError"]
  /\ dlast' = DIdle
  /\ UNCHANGED <<wcall, dcall, stores, memVars, tierVars, nsVars, raceVars, keyVars>>

\* wrap: const cached = await this.get(key); if (cached !== null) return cached
\* A rejection of the lookup leaves wrap before its try block.
WrapLookup(k, options, ok) ==
  /\ wcall = NoWrap /\ dcall = NoDeco
  /\ LET fullKey == BuildKey(k)
         r == MemGet(store, fullKey, now)
         present == Live(store, fullKey)
         found == [WIdle EXCEPT !.op = "wrap", !.key = k, !.options = options,
                                !.lookup = Outcome(ok), !.present = present,
                                !.cached = r.ret]
     IN IF ~ok
        THEN /\ wlast' = [found EXCEPT !.threw = TRUE, !.ret = "cacheError",
                                       !.present = FALSE, !.cached = Null]
             /\ UNCHANGED <<store, wcall>>
        ELSE /\ store' = Uncounted(r.store)
             /\ IF r.ret # Null
                THEN /\ wlast' = [found EXCEPT !.ret = r.ret]
                     /\ UNCHANGED wcall
                ELSE /\ wlast' = WIdle
                     /\ wcall' = [NoWrap EXCEPT !.pc = "factory", !.key = k,
                                               !.options = options,
                                               !.present = present]
  /\ dlast' = DIdle
  /\ UNCHANGED <<dcall, stores, memVars, tierVars, nsVars, raceVars, keyVars>>

\* What the wrap call in progress returns with
WrapReturn(c, threw, ret, stored) ==
  [WIdle EXCEPT !.op = "wrap", !.key = c.key, !.options = c.options,
                !.lookup = "ok", !.present = c.present, !.cached = c.cached,
                !.invoked = c.invoked, !.computed = c.computed,
                !.threw = threw, !.ret = ret, !.stored = stored]

\* wrap: const value = await factory(), the condition, and the return when
\* nothing is to be stored; a rejection goes to the catch block
WrapFactory(result) ==
  /\ wcall.pc = "factory"
  /\ LET c == [wcall EXCEPT !.invoked = @ + 1, !.computed = result]
     IN IF result = "throw"
        THEN LET h == WrapCatch(c.options.fallback, "factoryError")
             IN /\ wlast' = WrapReturn(c, h.threw, h.ret, FALSE)
                /\ wcall' = NoWrap
        ELSE IF ShouldCache(c.options.condition, result)
        THEN /\ wcall' = [c EXCEPT !.pc = "set"]
             /\ wlast' = WIdle
        ELSE /\ wlast' = WrapReturn(c, FALSE, result, FALSE)
             /\ wcall' = NoWrap
  /\ dlast' = DIdle
  /\ UNCHANGED <<store, dcall, stores, memVars, tierVars, nsVars, raceVars, keyVars>>

\* wrap: await this.set(key, value, options?.ttl) and return value; the set
\* is inside the try block, so its rejection goes to the catch block too
WrapSet(ok) ==
  /\ wcall.pc = "set"
  /\ IF ok
     THEN /\ store' = Uncounted(MemSet(store, BuildKey(wcall.key), wcall.computed,
                                       NullishTTL(wcall.options.ttl), now))
          /\ wlast' = WrapReturn(wcall, FALSE, wcall.computed, TRUE)
     ELSE LET h == WrapCatch(wcall.options.fallback, "cacheError")
          IN /\ wlast' = WrapReturn(wcall, h.threw, h.ret, FALSE)
             /\ UNCHANGED store
  /\ wcall' = NoWrap
  /\ dlast' = DIdle
  /\ UNCHANGED <<dcall, stores, memVars, tierVars, nsVars, raceVars, keyVars>>

WrapNext ==
  \/ \E k \in WrapKeys, v \in Values, ttl \in TTLs, ok \in BOOLEAN : MgrSet(k, v, ttl, ok)
  \/ \E k \in WrapKeys, ok \in BOOLEAN : MgrDelete(k, ok)
  \/ \E k \in WrapKeys, options \in WrapOptions, ok \in BOOLEAN : WrapLookup(k, options, ok)
  \/ \E result \in FactoryResults : WrapFactory(result)
  \/ \E ok \in BOOLEAN : WrapSet(ok)

SpecWrap == Init /\ [][WrapNext]_vars

\* ----------------------------------------------------- decorator behaviours
\* What the decorated call in progress returns with
DecoReturn(c, invoked, threw, ret) ==
  [DIdle EXCEPT !.op = c.op, !.key = c.key, !.options = c.options,
                !.manager = "found", !.lookup = IF c.op = "cache" THEN "ok" ELSE "none",
                !.present = c.present, !.invoked = invoked, !.result = c.result,
                !.threw = threw, !.ret = ret, !.evicted = c.evicted]

\* @TurboCache: getCacheManager(this), the key, await cacheManager.get(cacheKey)
\* and the return on a hit.  All of it is inside the try block.
CacheLookup(k, options, found, ok) ==
  /\ dcall = NoDeco /\ wcall = NoWrap
  /\ Len(stores) < MaxStores
  /\ LET fullKey == BuildKey(k)
         r == MemGet(store, fullKey, now)
         c == [NoDeco EXCEPT !.pc = "method", !.op = "cache", !.key = k,
                             !.options = options, !.present = Live(store, fullKey)]
         seen == [DIdle EXCEPT !.op = "cache", !.key = k, !.options = options]
     IN IF ~found
        THEN LET h == CacheCatch(options.fallback, "managerError")
             IN /\ dlast' = [seen EXCEPT !.manager = "missing", !.threw = h.threw,
                                         !.ret = h.ret]
                /\ UNCHANGED <<store, dcall>>
        ELSE IF ~ok
        THEN LET h == CacheCatch(options.fallback, "cacheError")
             IN /\ dlast' = [seen EXCEPT !.manager = "found", !.lookup = "fail",
                                         !.threw = h.threw, !.ret = h.ret]
                /\ UNCHANGED <<store, dcall>>
        ELSE /\ store' = Uncounted(r.store)
             /\ IF r.ret # Null
                THEN /\ dlast' = [DecoReturn(c, 0, FALSE, r.ret) EXCEPT !.cached = r.ret]
                     /\ UNCHANGED dcall
                ELSE /\ dlast' = DIdle
                     /\ dcall' = c
  /\ wlast' = WIdle
  /\ UNCHANGED <<stores, wcall, memVars, tierVars, nsVars, raceVars, keyVars>>

\* @TurboCache: await originalMethod.apply(this, args), checkCachingConditions,
\* the store that is started and not awaited, and the return; a rejection of
\* the method goes to the catch block
CacheMethod(result) ==
  /\ dcall.pc = "method" /\ dcall.op = "cache"
  /\ LET c == [dcall EXCEPT !.result = result]
         should == CheckCachingConditions(c.options, result)
         task == StoreTask(c.key, result, c.options.ttl)
     IN IF result = "throw"
        THEN LET h == CacheCatch(c.options.fallback, "methodError")
             IN /\ dlast' = DecoReturn(c, 1, h.threw, h.ret)
                /\ UNCHANGED stores
        ELSE /\ stores' = IF should THEN Append(stores, task) ELSE stores
             /\ dlast' = [DecoReturn(c, 1, FALSE, result) EXCEPT
                            !.started = should,
                            !.task = IF should THEN task ELSE NoStore]
  /\ dcall' = NoDeco
  /\ wlast' = WIdle
  /\ UNCHANGED <<store, wcall, memVars, tierVars, nsVars, raceVars, keyVars>>

\* A store started by a decorator settles: CacheManager.set writes
\* adapter.set(fullKey, value, ttl ?? defaultTTL); its rejection is logged.
StoreLands(i, ok) ==
  /\ i \in 1..Len(stores)
  /\ LET task == stores[i]
     IN /\ store' = IF ok THEN Uncounted(MemSet(store, BuildKey(task.key), task.value,
                                                 NullishTTL(task.ttl), now))
                    ELSE store
        /\ dlast' = [DIdle EXCEPT !.op = "store", !.key = task.key, !.task = task,
                                  !.ret = IF ok THEN "stored" ELSE "logged"]
  /\ stores' = Remove(stores, i)
  /\ wlast' = WIdle
  /\ UNCHANGED <<dcall, wcall, memVars, tierVars, nsVars, raceVars, keyVars>>

\* @TurboCacheEvict: getCacheManager(this) and, with beforeInvocation, await
\* evictCache(cacheManager, null, ...).  Both are outside the try block.
EvictStart(k, options, found, ok) ==
  /\ dcall = NoDeco /\ wcall = NoWrap
  /\ LET calls == options.beforeInvocation /\ EvictCalls(options, Null)
         c == [NoDeco EXCEPT !.pc = "method", !.op = "evict", !.key = k,
                             !.options = options,
                             !.present = Live(store, BuildKey(k)),
                             !.evicted = calls]
         seen == [DIdle EXCEPT !.op = "evict", !.key = k, !.options = options,
                               !.present = c.present]
     IN IF ~found
        THEN /\ dlast' = [seen EXCEPT !.manager = "missing", !.threw = TRUE,
                                      !.ret = "managerError"]
             /\ UNCHANGED <<store, dcall>>
        ELSE IF calls /\ ~ok
        THEN /\ dlast' = [seen EXCEPT !.manager = "found", !.threw = TRUE,
                                      !.ret = "cacheError"]
             /\ UNCHANGED <<store, dcall>>
        ELSE /\ store' = IF calls THEN Uncounted(EvictApply(store, options, k)) ELSE store
             /\ dcall' = c
             /\ dlast' = DIdle
  /\ wlast' = WIdle
  /\ UNCHANGED <<stores, wcall, memVars, tierVars, nsVars, raceVars, keyVars>>

\* @TurboCacheEvict: await originalMethod.apply(this, args); a rejection is
\* thrown again.  With beforeInvocation the result is returned; otherwise
\* evictCache(cacheManager, result, ...) follows, which returns at once when
\* its condition fails or nothing is to be evicted.
EvictMethod(result) ==
  /\ dcall.pc = "method" /\ dcall.op = "evict"
  /\ LET c == [dcall EXCEPT !.result = result]
     IN IF result = "throw"
        THEN /\ dlast' = DecoReturn(c, 1, TRUE, "methodError")
             /\ dcall' = NoDeco
        ELSE IF c.options.beforeInvocation \/ ~EvictCalls(c.options, result)
        THEN /\ dlast' = DecoReturn(c, 1, FALSE, result)
             /\ dcall' = NoDeco
        ELSE /\ dlast' = DIdle
             /\ dcall' = [c EXCEPT !.pc = "after"]
  /\ wlast' = WIdle
  /\ UNCHANGED <<store, stores, wcall, memVars, tierVars, nsVars, raceVars, keyVars>>

\* an eviction after the invocation whose failure is swallowed (the mutant
\* C25 is tried against)
EvictAfter_Swallow(ok) ==
  /\ dcall.pc = "after"
  /\ store' = IF ok THEN Uncounted(EvictApply(store, dcall.options, dcall.key)) ELSE store
  /\ dlast' = DecoReturn([dcall EXCEPT !.evicted = ok], 1, FALSE, dcall.result)
  /\ dcall' = NoDeco
  /\ wlast' = WIdle
  /\ UNCHANGED <<stores, wcall, memVars, tierVars, nsVars, raceVars, keyVars>>

\* @TurboCacheEvict: the eviction after the invocation; it is inside the try
\* block, and its rejection is thrown again
EvictAfter(ok) ==
  /\ dcall.pc = "after"
  /\ IF ok
     THEN /\ store' = Uncounted(EvictApply(store, dcall.options, dcall.key))
          /\ dlast' = DecoReturn([dcall EXCEPT !.evicted = TRUE], 1, FALSE, dcall.result)
     ELSE /\ dlast' = DecoReturn(dcall, 1, TRUE, "cacheError")
          /\ UNCHANGED store
  /\ dcall' = NoDeco
  /\ wlast' = WIdle
  /\ UNCHANGED <<stores, wcall, memVars, tierVars, nsVars, raceVars, keyVars>>

\* @TurboCachePut: getCacheManager(this) outside the try block, then the
\* method, the condition, the key and the store that is not awaited
Put(k, options, found, result) ==
  /\ dcall = NoDeco /\ wcall = NoWrap
  /\ Len(stores) < MaxStores
  /\ LET c == [NoDeco EXCEPT !.op = "put", !.key = k, !.options = options,
                             !.present = Live(store, BuildKey(k)), !.result = result]
         should == ~(options.condition.given /\ result \notin options.condition.accepts)
         task == StoreTask(k, result, options.ttl)
     IN IF ~found
        THEN /\ dlast' = [DecoReturn(c, 0, TRUE, "managerError") EXCEPT
                            !.manager = "missing", !.result = "none"]
             /\ UNCHANGED stores
        ELSE IF result = "throw"
        THEN /\ dlast' = DecoReturn(c, 1, TRUE, "methodError")
             /\ UNCHANGED stores
        ELSE /\ stores' = IF should THEN Append(stores, task) ELSE stores
             /\ dlast' = [DecoReturn(c, 1, FALSE, result) EXCEPT
                            !.started = should,
                            !.task = IF should THEN task ELSE NoStore]
  /\ wlast' = WIdle
  /\ UNCHANGED <<store, dcall, wcall, memVars, tierVars, nsVars, raceVars, keyVars>>

\* @TurboCache calls, the stores they leave behind and deletes by other callers
CacheNext ==
  \/ \E k \in WrapKeys, options \in CacheOptions, found \in BOOLEAN, ok \in BOOLEAN :
        CacheLookup(k, options, found, ok)
  \/ \E result \in MethodResults : CacheMethod(result)
  \/ \E i \in 1..MaxStores, ok \in BOOLEAN : StoreLands(i, ok)
  \/ \E k \in WrapKeys, ok \in BOOLEAN : MgrDelete(k, ok)

SpecCache == Init /\ [][CacheNext]_vars

\* @TurboCacheEvict calls and sets by other callers
EvictNext ==
  \/ \E k \in WrapKeys, options \in EvictOptions, found \in BOOLEAN, ok \in BOOLEAN :
        EvictStart(k, options, found, ok)
  \/ \E result \in MethodResults : EvictMethod(result)
  \/ \E ok \in BOOLEAN : EvictAfter(ok)
  \/ \E k \in WrapKeys, v \in Values, ok \in BOOLEAN : MgrSet(k, v, Undefined, ok)

SpecEvict == Init /\ [][EvictNext]_vars

\* @TurboCacheEvict calls with allEntries and a namespace option, and sets by
\* other callers
EvictAllNext ==
  \/ \E k \in WrapKeys, options \in EvictAllOptions, found \in BOOLEAN, ok \in BOOLEAN :
        EvictStart(k, options, found, ok)
  \/ \E result \in MethodResults : EvictMethod(result)
  \/ \E ok \in BOOLEAN : EvictAfter(ok)
  \/ \E k \in GroupedKeys, ok \in BOOLEAN : MgrSet(k, "v1", Undefined, ok)

SpecEvictAll == Init /\ [][EvictAllNext]_vars

\* @TurboCache and @TurboCachePut calls, the stores they leave behind, and
\* @TurboCacheEvict calls of a key, before or after the invocation
KeyEvictOptions == {[NoOptions EXCEPT !.beforeInvocation = b] : b \in BOOLEAN}

InvalidateNext ==
  \/ \E k \in WrapKeys, found \in BOOLEAN, ok \in BOOLEAN : CacheLookup(k, NoOptions, found, ok)
  \/ \E result \in MethodResults : CacheMethod(result)
  \/ \E k \in WrapKeys, found \in BOOLEAN, result \in MethodResults :
        Put(k, NoOptions, found, result)
  \/ \E i \in 1..MaxStores, ok \in BOOLEAN : StoreLands(i, ok)
  \/ \E k \in WrapKeys, options \in KeyEvictOptions, found \in BOOLEAN, ok \in BOOLEAN :
        EvictStart(k, options, found, ok)
  \/ \E result \in MethodResults : EvictMethod(result)
  \/ \E ok \in BOOLEAN : EvictAfter(ok)

SpecInvalidate == Init /\ [][InvalidateNext]_vars

\* @TurboCachePut calls, the stores they leave behind and deletes by other
\* callers
PutNext ==
  \/ \E k \in WrapKeys, options \in PutOptions, found \in BOOLEAN,
        result \in MethodResults : Put(k, options, found, result)
  \/ \E i \in 1..MaxStores, ok \in BOOLEAN : StoreLands(i, ok)
  \/ \E k \in WrapKeys, ok \in BOOLEAN : MgrDelete(k, ok)

SpecPut == Init /\ [][PutNext]_vars

\* The two fetch-or-compute verbs side by side: CacheManager.wrap and
\* @TurboCache calls, the stores left behind and deletes by other callers
FetchNext ==
  \/ \E k \in WrapKeys, ok \in BOOLEAN,
        options \in {o \in WrapOptions : o.ttl = Undefined /\ o.fallback # "literal"} :
        WrapLookup(k, options, ok)
  \/ \E result \in MethodResults : WrapFactory(result)
  \/ \E ok \in BOOLEAN : WrapSet(ok)
  \/ \E k \in WrapKeys, found \in BOOLEAN, ok \in BOOLEAN,
        options \in {o \in CacheOptions : o.unless = NoCondition} :
        CacheLookup(k, options, found, ok)
  \/ \E result \in MethodResults : CacheMethod(result)
  \/ \E i \in 1..MaxStores, ok \in BOOLEAN : StoreLands(i, ok)
  \/ \E k \in WrapKeys, ok \in BOOLEAN : MgrDelete(k, ok)

SpecFetch == Init /\ [][FetchNext]_vars

\* ------------------------------------------------- KeyGenerator behaviours
\* generate(pattern, args, methodName) with a pattern.  The generator keeps
\* no state from one call to the next, so a behaviour is one call.
Generate(pattern, args) ==
  /\ klast = KIdle
  /\ klast' = [pattern |-> pattern, args |-> args, key |-> ParseExpression(pattern, args)]
  /\ UNCHANGED <<memVars, tierVars, mgrVars, decoVars, nsVars, raceVars>>

KeyNext == \E pattern \in KeyPatterns, args \in ArgLists : Generate(pattern, args)

SpecKey == Init /\ [][KeyNext]_vars

\* --------------------------------------- concurrent @TurboCache callers
\* Several callers call one @TurboCache method, decorated with or without
\* stampedeLock.  Each call is the code of the wrapper between its awaits:
\* the lookup, and the method with the store that is started and the return.
\* options.stampedeLock and options.stampedeTTL are read nowhere in the
\* wrapper, so lock is carried along and decides nothing.

RaceUnchanged == UNCHANGED <<wcall, wlast, dcall, dlast, memVars, tierVars, nsVars, keyVars>>

\* const cached = await cacheManager.get(cacheKey); if (cached !== null) return cached
RaceLookup(c, k, lock) ==
  /\ racing[c].pc \in {"idle", "done"}
  /\ racing[c].calls < MaxCalls
  /\ LET r == MemGet(store, BuildKey(k), now)
         entered == [NoRace EXCEPT !.key = k, !.lock = lock,
                                   !.calls = racing[c].calls + 1]
     IN /\ store' = Uncounted(r.store)
        /\ racing' = [racing EXCEPT ![c] =
                        IF r.ret # Null
                        THEN [entered EXCEPT !.pc = "done", !.ret = r.ret]
                        ELSE [entered EXCEPT !.pc = "method"]]
  /\ UNCHANGED stores
  /\ RaceUnchanged

\* const result = await originalMethod.apply(this, args); the store is started
\* and not awaited; return result
RaceMethod(c, result) ==
  /\ racing[c].pc = "method"
  /\ Len(stores) < MaxStores
  /\ stores' = Append(stores, StoreTask(racing[c].key, result, Undefined))
  /\ racing' = [racing EXCEPT ![c] = [@ EXCEPT !.pc = "done", !.ret = result,
                                                !.invoked = TRUE]]
  /\ UNCHANGED store
  /\ RaceUnchanged

RaceNext ==
  \/ \E c \in Callers, k \in WrapKeys, lock \in BOOLEAN : RaceLookup(c, k, lock)
  \/ \E c \in Callers, result \in Values : RaceMethod(c, result)
  \/ \E i \in 1..MaxStores, ok \in BOOLEAN : StoreLands(i, ok)

SpecRace == Init /\ [][RaceNext]_vars

\* ------------------------------------------ managers that share an adapter
\* Calls through CacheManagers of different namespaces, all constructed over
\* the same adapter.  The adapter answers every call; each call is one step.

\* Bound on the entries the shared adapter holds in SpecNs
MaxEntries == 3

NsKeyLists ==
  {ks \in UNION {[1..n -> WrapKeys] : n \in 1..MaxBatch} :
     \A i, j \in 1..Len(ks) : i # j => ks[i] # ks[j]}

NsUnchanged == UNCHANGED <<wcall, wlast, memVars, tierVars, decoVars, raceVars, keyVars>>

\* get: adapter.get(buildKey(key))
NsGet(ns, k) ==
  /\ LET fullKey == BuildKeyNs(ns, k)
         r == MemGet(store, fullKey, now)
     IN /\ store' = Uncounted(r.store)
        /\ nlast' = [NIdle EXCEPT !.op = "get", !.ns = ns, !.keys = <<k>>,
                                  !.addr = <<fullKey>>, !.val = r.ret]
  /\ NsUnchanged

\* set: adapter.set(buildKey(key), value, ttl ?? defaultTTL)
NsSet(ns, k, v) ==
  /\ LET fullKey == BuildKeyNs(ns, k)
     IN /\ MapHas(store.cache, fullKey) \/ Len(store.cache) < MaxEntries
        /\ store' = Uncounted(MemSet(store, fullKey, v, NullishTTL(Undefined), now))
        /\ nlast' = [NIdle EXCEPT !.op = "set", !.ns = ns, !.keys = <<k>>,
                                  !.addr = <<fullKey>>, !.val = v]
  /\ NsUnchanged

\* delete: adapter.delete(buildKey(key))
NsDelete(ns, k) ==
  /\ LET fullKey == BuildKeyNs(ns, k)
     IN /\ store' = Uncounted(MemDelete(store, fullKey))
        /\ nlast' = [NIdle EXCEPT !.op = "delete", !.ns = ns, !.keys = <<k>>,
                                  !.addr = <<fullKey>>]
  /\ NsUnchanged

\* has: adapter.has(buildKey(key))
NsHas(ns, k) ==
  /\ LET fullKey == BuildKeyNs(ns, k)
         r == MemHas(store, fullKey, now)
     IN /\ store' = Uncounted(r.store)
        /\ nlast' = [NIdle EXCEPT !.op = "has", !.ns = ns, !.keys = <<k>>,
                                  !.addr = <<fullKey>>,
                                  !.val = IF r.ret THEN "true" ELSE "false"]
  /\ NsUnchanged

\* mget
NsMget(ns, ks) ==
  /\ LET r == MgrMget(store, ns, ks, now)
     IN /\ store' = Uncounted(r.store)
        /\ nlast' = [NIdle EXCEPT !.op = "mget", !.ns = ns, !.keys = ks,
                                  !.addr = r.fullKeys, !.ret = MapKeys(r.ret)]
  /\ NsUnchanged

\* mset
NsMset(ns, ks, v) ==
  /\ Len(MgrMset(store, ns, EntriesOf(ks, v), Undefined, now).cache) <= MaxEntries
  /\ store' = Uncounted(MgrMset(store, ns, EntriesOf(ks, v), Undefined, now))
  /\ nlast' = [NIdle EXCEPT !.op = "mset", !.ns = ns, !.keys = ks,
                            !.addr = [i \in 1..Len(ks) |-> BuildKeyNs(ns, ks[i])],
                            !.val = v]
  /\ NsUnchanged

\* keys
NsKeys(ns, p) ==
  /\ nlast' = [NIdle EXCEPT !.op = "keys", !.ns = ns, !.pattern = p,
                            !.addr = <<FullPattern(ns, p)>>,
                            !.ret = MgrKeys(store, ns, p)]
  /\ UNCHANGED store
  /\ NsUnchanged

\* clear
NsClear(ns, p) ==
  /\ store' = Uncounted(MgrClear(store, ns, p))
  /\ nlast' = [NIdle EXCEPT !.op = "clear", !.ns = ns, !.pattern = p,
                            !.addr = <<FullPattern(ns, p)>>]
  /\ NsUnchanged

\* Calls made on the adapter itself, a MemoryAdapter with the default max
GlobKeys == {EmptyKey, <<"a">>, <<"a", "b">>, <<"b">>, <<"a", "LF">>}
GlobPatterns == {NoPattern, << >>, <<"*">>, <<"a", "*">>, <<"*", "b">>, <<"a">>}

AdapterSet(k, v) ==
  /\ MapHas(store.cache, k) \/ Len(store.cache) < MaxEntries
  /\ store' = Uncounted(MemSet(store, k, v, Undefined, now))
  /\ nlast' = [NIdle EXCEPT !.op = "set", !.keys = <<k>>, !.addr = <<k>>, !.val = v]
  /\ NsUnchanged

AdapterClear(p) ==
  /\ store' = Uncounted(MemClear(store, p))
  /\ nlast' = [NIdle EXCEPT !.op = "clear", !.pattern = p, !.addr = <<p>>]
  /\ NsUnchanged

AdapterKeys(p) ==
  /\ nlast' = [NIdle EXCEPT !.op = "keys", !.pattern = p, !.addr = <<p>>,
                            !.ret = MemKeysOf(store, p)]
  /\ UNCHANGED store
  /\ NsUnchanged

GlobNext ==
  \/ \E k \in GlobKeys : AdapterSet(k, "v1")
  \/ \E p \in GlobPatterns : AdapterClear(p)
  \/ \E p \in GlobPatterns : AdapterKeys(p)

SpecGlob == Init /\ [][GlobNext]_vars

NsNext ==
  \/ \E ns \in Namespaces, k \in WrapKeys : NsGet(ns, k)
  \/ \E ns \in Namespaces, k \in WrapKeys : NsSet(ns, k, "v1")
  \/ \E ns \in Namespaces, k \in WrapKeys : NsDelete(ns, k)
  \/ \E ns \in Namespaces, k \in WrapKeys : NsHas(ns, k)
  \/ \E ns \in Namespaces, ks \in NsKeyLists : NsMget(ns, ks)
  \/ \E ns \in Namespaces, ks \in NsKeyLists : NsMset(ns, ks, "v1")
  \/ \E ns \in Namespaces, p \in NsPatterns : NsKeys(ns, p)
  \/ \E ns \in Namespaces, p \in NsPatterns : NsClear(ns, p)

SpecNs == Init /\ [][NsNext]_vars

\* wrap and @TurboCache calls without options whose compute delivers a value
\* or null, the stores they leave behind, and mget calls of the same manager
NullableResults == {"v1", Null}
NullKeyLists == {<<<<"a">>>>, <<<<"b">>, <<"a">>>>}

NullNext ==
  \/ \E k \in WrapKeys : WrapLookup(k, NoWrap.options, TRUE)
  \/ \E result \in NullableResults : WrapFactory(result)
  \/ \E ok \in BOOLEAN : WrapSet(ok)
  \/ \E k \in WrapKeys : CacheLookup(k, NoOptions, TRUE, TRUE)
  \/ \E result \in NullableResults : CacheMethod(result)
  \/ \E i \in 1..MaxStores, ok \in BOOLEAN : StoreLands(i, ok)
  \/ \E ks \in NullKeyLists : NsMget(Namespace, ks)

SpecNull == Init /\ [][NullNext]_vars

\* sets of one key with a ttl of 0 or without a ttl, on a MemoryAdapter, through
\* a CacheManager and on a MultiTierAdapter, gets of the key and a clock
ZeroTTLs == {Undefined, 0}

ZeroTtlNext ==
  \/ Tick(MsPerSecond)
  \/ \E ttl \in ZeroTTLs : Set(<<"a">>, "v1", ttl)
  \/ Get(<<"a">>)
  \/ \E ttl \in ZeroTTLs : MgrSet(<<"a">>, "v1", ttl, TRUE)
  \/ NsGet(Namespace, <<"a">>)
  \/ \E ttl \in ZeroTTLs, tier \in {"l1", "l2"} :
       TierWriteStart(Write("set", <<"a">>, "v1", ttl, << >>), tier, TRUE)
  \/ TierWriteSecond(TRUE)

SpecZeroTtl == Init /\ [][ZeroTtlNext]_vars

\* sets with and without a ttl, has and keys calls of a MemoryAdapter, its
\* periodic sweep and a clock
KeysExpiryNext ==
  \/ \E d \in TickSteps : Tick(d)
  \/ \E k \in MemKeys, ttl \in TTLs : Set(k, "v1", ttl)
  \/ \E k \in MemKeys : Has(k)
  \/ \E p \in Patterns : Keys(p)
  \/ Cleanup

SpecKeysExpiry == Init /\ [][KeysExpiryNext]_vars

\* A CacheManager whose adapter is a MultiTierAdapter.  CacheManager.set and
\* mset hand the adapter the full key(s) and ttl ?? this.defaultTTL.
ManagedSet(k, v, ttl) == Write("set", BuildKey(k), v, NullishTTL(ttl), << >>)

ManagedMset(ks, v, ttl) ==
  Write("mset", EmptyKey, Null, NullishTTL(ttl),
        [i \in 1..Len(ks) |-> [key |-> BuildKey(ks[i]), value |-> v]])

ManagedTTLs == {Undefined, 60}
ManagedKeyLists == {<<<<"a">>, <<"b">>>>}

ManagedTierNext ==
  \/ \E k \in TierKeys, ttl \in ManagedTTLs, tier \in {"l1", "l2"}, ok \in BOOLEAN :
       TierWriteFirst(ManagedSet(k, "v1", ttl), tier, ok)
  \/ \E ks \in ManagedKeyLists, ttl \in ManagedTTLs, tier \in {"l1", "l2"}, ok \in BOOLEAN :
       TierWriteFirst(ManagedMset(ks, "v1", ttl), tier, ok)
  \/ \E ok \in BOOLEAN : TierWriteSecond(ok)

SpecManagedTier == Init /\ [][ManagedTierNext]_vars

\* @TurboCache calls with no fallback, a literal one or a function, whose
\* manager may be missing and whose lookup may fail, and the stores they start
FallbackOptions ==
  {[NoOptions EXCEPT !.fallback = f] : f \in {"absent", "literal", "function"}}

LookupFailNext ==
  \/ \E k \in WrapKeys, options \in FallbackOptions, found \in BOOLEAN, ok \in BOOLEAN :
        CacheLookup(k, options, found, ok)
  \/ \E result \in MethodResults : CacheMethod(result)
  \/ \E i \in 1..MaxStores, ok \in BOOLEAN : StoreLands(i, ok)

SpecLookupFail == Init /\ [][LookupFailNext]_vars

\* ------------------------------------------------------------------ claims

\* The stored entry e has an expiry and the clock is past it.
PastExpiry(e) == e # NoEntry /\ e.expiresAt # 0 /\ e.expiresAt < now

\* C1: once the clock is past the expiresAt of the entry stored for k, get(k)
\* returns null and has(k) returns false, whether or not the entry has been
\* removed from the map yet: both for the call that was just made and for a
\* call made in the present state.
C1_ExpiredNeverReturned ==
  /\ (last.op = "get" /\ PastExpiry(last.pre)) => last.ret = Null
  /\ (last.op = "has" /\ PastExpiry(last.pre)) => last.ret = "false"
  /\ \A k \in MemKeys :
       PastExpiry(MapGet(mem.cache, k)) =>
         /\ MemGet(mem, k, now).ret = Null
         /\ MemHas(mem, k, now).ret = FALSE

\* C1 witness: a get found the entry of its key still stored, past its expiry.
C1_Witness ==
  /\ last.op = "get" /\ PastExpiry(last.pre) /\ last.ret = Null
  /\ \E k \in MemKeys : PastExpiry(MapGet(mem.cache, k))

\* C2 (as claimed): the number of stored entries never exceeds the configured
\* max N.
C2_NeverExceedsMax == Len(mem.cache) <= mem.max

\* C3 (as claimed): a set of a key that is not stored, on a store holding
\* max entries, removes the entry inserted earliest and appends the new key;
\* a set of a stored key leaves the keys and their order as they are; get and
\* has move no key (they may only drop the key they looked up).
C3_EvictsOldestInserted ==
  [][LET before == MapKeys(mem.cache)
         after == MapKeys(mem'.cache)
         k == last'.key
     IN /\ last'.op = "set" =>
             IF MapHas(mem.cache, k) THEN after = before
             ELSE IF Len(before) = mem.max THEN after = Append(Tail(before), k)
             ELSE after = Append(before, k)
        /\ last'.op \in {"get", "has"} =>
             after \in {before, MapKeys(MapDelete(mem.cache, k))}]_vars

\* C4: a get of k made right after set(k, v, ttl), at the same instant,
\* returns v.
C4_SetThenGet ==
  (last.op = "get" /\ last.setv # "none") => last.ret = last.setv

\* C4 witness: such a get on a store that holds max entries or more, the key
\* having been written with an expiry.
C4_Witness ==
  /\ last.op = "get" /\ last.setv = "v2" /\ last.ret = "v2"
  /\ last.pre.expiresAt > now
  /\ Len(mem.cache) >= mem.max

HotSubsetOfCold == \A k \in TierKeys : Live(l1, k) => Live(l2, k)

BackfillPending(k, v) ==
  \E i \in 1..Len(tasks) : tasks[i].w = Write("set", k, v, L1TTL, << >>)

\* The hot tier holds k with value v, expiring one hot TTL from now.
HotHolds(k, v) ==
  MapGet(l1.cache, k) = [key |-> k, value |-> v, expiresAt |-> now + L1TTL * MsPerSecond]

\* A get of k that missed the hot tier and found v in the cold tier returned.
ColdHit(k, v) ==
  tlast.op = "get" /\ tlast.key = k /\ tlast.hot = Null /\ tlast.cold = v

\* C6 (as claimed): a get that finds k only in the cold tier returns the cold
\* value, and the hot tier eventually holds k with that value and the hot TTL.
C6_BackfillAlwaysLands ==
  \A k \in TierKeys, v \in Values :
    ColdHit(k, v) ~> HotHolds(k, v)

\* C6 (amended): such a get returns the cold value and has started the
\* backfill of k with that value and the hot tier's TTL; the backfill
\* eventually settles, and unless its write to the hot tier failed the hot
\* tier then holds k with that value, expiring one hot TTL later.
C6_BackfillLandsUnlessFailed ==
  /\ [](\A k \in TierKeys, v \in Values :
          ColdHit(k, v) => tlast.ret = v /\ BackfillPending(k, v))
  /\ \A k \in TierKeys, v \in Values :
       BackfillPending(k, v) ~>
         (/\ tlast.op = "backfill" /\ tlast.key = k
          /\ tlast.ret = "stored" => HotHolds(k, v))

\* C6 witness: the backfill of a cold hit has landed; the hot copy carries the
\* hot TTL and the cold copy the cold TTL.
C6_Witness ==
  \E k \in TierKeys, v \in Values :
    /\ tlast.op = "backfill" /\ tlast.key = k /\ tlast.ret = "stored"
    /\ HotHolds(k, v)
    /\ MapGet(l2.cache, k) = [key |-> k, value |-> v,
                              expiresAt |-> now + L2TTL * MsPerSecond]

\* C7: a get that returns has asked the hot tier first; on a hot hit it
\* returns the hot tier's value without asking the cold tier, on a hot miss
\* it has asked the cold tier and returns what the cold tier answered (the
\* value on a hit, null on a miss).
C7_HotFirst ==
  (tlast.op = "get" /\ tlast.ret # "err") =>
    IF tlast.hot # Null
    THEN tlast.ret = tlast.hot /\ tlast.cold = "unqueried"
    ELSE tlast.cold # "unqueried" /\ tlast.ret = tlast.cold

\* C7 witness: a hot hit returned while the cold tier holds another value for
\* the key.
C7_Witness ==
  /\ tlast.op = "get" /\ tlast.hot \in Values /\ tlast.ret = tlast.hot
  /\ MapHas(l2.cache, tlast.key)
  /\ MapGet(l2.cache, tlast.key).value # tlast.hot

\* C8: a set or delete of which one tier write failed raises to the caller;
\* the step that raises changes neither the tier that succeeded nor starts
\* any write, and (no other write having been in flight) the tier that
\* succeeded shows the effect of the operation.
C8_PartialFailureRaises ==
  [][(tlast'.op \in {"set", "delete"} /\ "fail" \in {tlast'.hot, tlast'.cold}) =>
       /\ tlast'.ret = "err"
       /\ tasks' = tasks
       /\ tlast'.hot = "ok" =>
            /\ l1' = l1
            /\ clean => IF tlast'.op = "set"
                        THEN MapGet(l1'.cache, tlast'.key).value = tlast'.w.value
                        ELSE ~MapHas(l1'.cache, tlast'.key)
       /\ tlast'.cold = "ok" =>
            /\ l2' = l2
            /\ clean => IF tlast'.op = "set"
                        THEN MapGet(l2'.cache, tlast'.key).value = tlast'.w.value
                        ELSE ~MapHas(l2'.cache, tlast'.key)]_vars

\* C8 witness: a set raised after its hot write succeeded and its cold write
\* failed; the hot tier holds the key, the cold tier does not.
C8_Witness ==
  /\ tlast.op = "set" /\ tlast.ret = "err"
  /\ tlast.hot = "ok" /\ tlast.cold = "fail"
  /\ MapHas(l1.cache, tlast.key) /\ ~MapHas(l2.cache, tlast.key)

\* C9: get and mget return what the cold tier answered (mget: merged over the
\* hot results) and leave the backfill behind; a backfill that fails is
\* logged, reaches no caller and leaves the call in progress and both tiers
\* as they are.
C9_BackfillFailureSwallowed ==
  /\ []((tlast.op = "get" /\ tlast.hot = Null /\ tlast.cold \in Values) =>
          tlast.ret = tlast.cold)
  /\ []((tlast.op = "mget" /\ tlast.cold = "ok") =>
          tlast.ret = "ok" /\ tlast.rets = tlast.hots \o tlast.colds)
  /\ []((tlast.op = "backfill") => tlast.ret \in {"stored", "logged"})
  /\ [][(tlast'.op = "backfill" /\ tlast'.ret # "stored") =>
          call' = call /\ l1' = l1 /\ l2' = l2]_vars

\* C9 witness: the backfill of an mget failed after the mget had returned the
\* cold tier's values; the hot tier is left without them.
C9_Witness ==
  /\ tlast.op = "backfill" /\ tlast.ret = "logged"
  /\ tlast.w.op = "mset" /\ tlast.colds = tlast.w.entries
  /\ Len(tlast.colds) > 0
  /\ \A i \in 1..Len(tlast.colds) : ~MapHas(l1.cache, tlast.colds[i].key)

\* The entry wrap leaves under the key of the call that just returned
WrapEntry ==
  [key |-> BuildKey(wlast.key), value |-> wlast.computed,
   expiresAt |-> now + NullishTTL(wlast.options.ttl) * MsPerSecond]

\* C10 (as claimed): a wrap whose lookup finds the key present returns the
\* cached value and does not invoke the factory; a wrap that finds it absent
\* invokes the factory exactly once and, when the factory succeeds, returns
\* its value, having stored it under the key with the given ttl exactly when
\* the condition is absent or accepts the value.
C10_WrapReturnsCachedOrComputes ==
  (wlast.op = "wrap" /\ wlast.lookup = "ok") =>
    IF wlast.present
    THEN wlast.ret = wlast.cached /\ wlast.invoked = 0
    ELSE /\ wlast.invoked = 1
         /\ wlast.computed # "throw" =>
              /\ ~wlast.threw /\ wlast.ret = wlast.computed
              /\ wlast.stored <=> ShouldCache(wlast.options.condition, wlast.computed)
              /\ wlast.stored => MapGet(store.cache, BuildKey(wlast.key)) = WrapEntry

\* C13 (as claimed): a wrap whose factory fails returns the configured
\* fallback (the literal, or the result of calling the fallback function with
\* the failure) and stores nothing; without a fallback the factory's failure
\* reaches the caller unchanged.
C13_FallbackOnComputeFailure ==
  (wlast.op = "wrap" /\ wlast.computed = "throw") =>
    /\ ~wlast.stored
    /\ CASE wlast.options.fallback = "literal" ->
              ~wlast.threw /\ wlast.ret = FallbackValue
         [] wlast.options.fallback = "function" ->
              ~wlast.threw /\ wlast.ret = FallbackOf("factoryError")
         [] OTHER -> wlast.threw /\ wlast.ret = "factoryError"

\* The step starts a wrap of key k whose lookup is answered: it misses and
\* goes on to the factory, or it hits and returns.
WrapStarts(k) ==
  \/ wcall = NoWrap /\ wcall'.pc = "factory" /\ wcall'.key = k
  \/ wcall = NoWrap /\ wlast'.op = "wrap" /\ wlast'.key = k /\ wlast'.lookup = "ok"

\* The step is a wrap of key k that returns v from the cache, the factory not
\* invoked.
WrapHits(k, v) ==
  wlast'.op = "wrap" /\ wlast'.key = k /\ wlast'.ret = v /\ wlast'.invoked = 0

\* The same for a call of a @TurboCache method
CacheStarts(k) ==
  \/ dcall = NoDeco /\ dcall'.pc = "method" /\ dcall'.op = "cache" /\ dcall'.key = k
  \/ dcall = NoDeco /\ dlast'.op = "cache" /\ dlast'.key = k /\ dlast'.lookup = "ok"

CacheHits(k, v) ==
  dlast'.op = "cache" /\ dlast'.key = k /\ dlast'.ret = v /\ dlast'.invoked = 0

\* C11 (as claimed): a fetch-or-compute call that starts right after a call
\* with the same key has returned returns the same value without running
\* the compute.
C11_SecondCallNeverComputes ==
  [][/\ (wlast.op = "wrap" /\ ~wlast.threw /\ WrapStarts(wlast.key))
          => WrapHits(wlast.key, wlast.ret)
     /\ (dlast.op = "cache" /\ ~dlast.threw /\ CacheStarts(dlast.key))
          => CacheHits(dlast.key, dlast.ret)]_vars

\* C11 (amended): the same when the first call returned a value other than
\* null that it found in the cache or stored: for wrap the store is part of
\* the call; a @TurboCache call leaves the store of the value it returned
\* behind, and the second call returns that value without computing once
\* that store has succeeded.
C11_SecondCallHitsWhatWasStored ==
  /\ [][/\ ( /\ wlast.op = "wrap" /\ ~wlast.threw /\ wlast.ret # Null
             /\ (wlast.stored \/ wlast.invoked = 0)
             /\ WrapStarts(wlast.key) )
             => WrapHits(wlast.key, wlast.ret)
        /\ ( /\ dlast.op = "cache" /\ ~dlast.threw /\ dlast.invoked = 0
             /\ dlast.lookup = "ok"
             /\ CacheStarts(dlast.key) )
             => CacheHits(dlast.key, dlast.ret)
        /\ ( /\ dlast.op = "store" /\ dlast.ret = "stored" /\ dlast.task.value # Null
             /\ CacheStarts(dlast.key) )
             => CacheHits(dlast.key, dlast.task.value)]_vars
  /\ []((dlast.op = "cache" /\ dlast.started) =>
          /\ dlast.task = [key |-> dlast.key, value |-> dlast.ret,
                           ttl |-> dlast.options.ttl]
          /\ stores # << >> /\ stores[Len(stores)] = dlast.task)

\* C11 witness: a @TurboCache call returned from the cache what an earlier
\* fetch-or-compute call had stored (nothing else writes the cache here).
C11_Witness ==
  /\ dlast.op = "cache" /\ dlast.invoked = 0 /\ dlast.lookup = "ok"
  /\ dlast.ret = "v1" /\ dlast.present
  /\ stores = << >>

\* The decorated call that just returned delivered the result of its method.
DecoReturnsResult ==
  (dlast.op \in {"cache", "put"} /\ dlast.result \notin {"none", "throw"}) =>
    ~dlast.threw /\ dlast.ret = dlast.result

\* C12 (as claimed): whenever the compute of a wrap, or the method behind
\* @TurboCache or @TurboCachePut, succeeds with a value, the call returns that
\* value, whatever becomes of storing it: neither a fallback nor a cache
\* failure is returned in its place.
C12_CacheFailureNeverMasks ==
  /\ (wlast.op = "wrap" /\ wlast.computed \notin {"none", "throw"}) =>
       ~wlast.threw /\ wlast.ret = wlast.computed
  /\ DecoReturnsResult

\* The step is the start of a @TurboCacheEvict call that goes on to its method.
EvictEnters(before) ==
  /\ dcall = NoDeco /\ dcall'.op = "evict" /\ dcall'.pc = "method"
  /\ dcall'.options.beforeInvocation = before

\* The step is the method of a @TurboCacheEvict call failing.
EvictMethodFails ==
  /\ dcall.op = "evict" /\ dcall.pc = "method"
  /\ dlast'.op = "evict" /\ dlast'.threw /\ dlast'.ret = "methodError"

\* C14 (as claimed): with beforeInvocation the entry is gone when the method
\* is invoked, and a failure of the method leaves the cache as it is (the
\* entry stays evicted); without it nothing is evicted before the method
\* runs and nothing when the method fails (the entry is still there).
C14_EvictTiming ==
  [][/\ EvictEnters(TRUE) => ~MapHas(store'.cache, BuildKey(dcall'.key))
     /\ EvictEnters(FALSE) => store' = store
     /\ EvictMethodFails => store' = store]_vars

\* C14 (amended): the same, the eviction before the invocation being subject
\* to the configured condition, which is called with a null result there:
\* the entry is gone when the condition is absent or accepts null, and the
\* cache is unchanged when the condition rejects null.
C14_EvictTimingUnderCondition ==
  [][/\ EvictEnters(TRUE) =>
          IF dcall'.options.condition.given /\ Null \notin dcall'.options.condition.accepts
          THEN store' = store
          ELSE ~MapHas(store'.cache, BuildKey(dcall'.key))
     /\ EvictEnters(FALSE) => store' = store
     /\ EvictMethodFails => store' = store]_vars

\* C14 witness: a call with beforeInvocation whose method failed has returned;
\* the entry that was there when the call started is gone.
C14_Witness ==
  /\ dlast.op = "evict" /\ dlast.threw /\ dlast.ret = "methodError"
  /\ dlast.options.beforeInvocation /\ dlast.options.keyGiven
  /\ dlast.present /\ dlast.evicted
  /\ ~MapHas(store.cache, BuildKey(dlast.key))

\* C15: every @TurboCachePut call invokes the method exactly once and the
\* caller observes the method's value or failure; the store is started
\* exactly when the method succeeded and the condition holds.
C15_PutAlwaysInvokesOnce ==
  dlast.op = "put" =>
    /\ dlast.invoked = 1
    /\ IF dlast.result = "throw"
       THEN dlast.threw /\ dlast.ret = "methodError"
       ELSE ~dlast.threw /\ dlast.ret = dlast.result
    /\ dlast.started <=>
         /\ dlast.result \notin {"none", "throw"}
         /\ ~(dlast.options.condition.given
              /\ dlast.result \notin dlast.options.condition.accepts)

\* The last step was a @TurboCache call returning after a miss and a
\* successful method.
MissReturned == dlast.op = "cache" /\ dlast.invoked = 1 /\ dlast.result # "throw"

\* C16: a @TurboCache call that missed and whose method returned gives the
\* caller the method's result; it has started a store of that result under
\* the call's key and ttl exactly when unless is absent or false and
\* condition is absent or true; that store is still pending when the call
\* returns, and a call that starts none leaves the pending stores as they are.
C16_MissReturnsResultStoreNotAwaited ==
  /\ [](MissReturned =>
          /\ ~dlast.threw /\ dlast.ret = dlast.result
          /\ dlast.started <=>
               /\ ~(dlast.options.unless.given
                    /\ dlast.result \in dlast.options.unless.accepts)
               /\ ~(dlast.options.condition.given
                    /\ dlast.result \notin dlast.options.condition.accepts)
          /\ IF dlast.started
             THEN /\ dlast.task = [key |-> dlast.key, value |-> dlast.result,
                                   ttl |-> dlast.options.ttl]
                  /\ stores # << >> /\ stores[Len(stores)] = dlast.task
             ELSE dlast.task = NoStore)
  /\ [][(MissReturned' /\ ~dlast'.started) => stores' = stores]_vars

\* C16 witness: a miss whose result passed an unless and a condition has
\* returned with its store pending.
C16_Witness ==
  /\ dlast.op = "cache" /\ dlast.invoked = 1 /\ dlast.lookup = "ok"
  /\ dlast.result = "v1" /\ dlast.ret = "v1" /\ dlast.started
  /\ dlast.options.unless.given /\ dlast.options.condition.given
  /\ stores # << >> /\ stores[Len(stores)] = dlast.task

\* The adapter key the manager of namespace ns is to use for the caller's key k
Prefixed(ns, k) == IF ns = << >> THEN k ELSE ns \o <<":">> \o k

\* The caller's keys, of those in ks, that the manager of namespace ns holds
HeldOf(ns, ks) == SelectSeq(ks, LAMBDA k : MapHas(store.cache, Prefixed(ns, k)))

\* The keyed calls of a manager address the prefixed adapter keys, and mget
\* returns the requested keys that are held.
KeyedCallsPrefixed ==
  /\ nlast.op \in {"get", "set", "delete", "has", "mget", "mset"} =>
       nlast.addr = [i \in 1..Len(nlast.keys) |-> Prefixed(nlast.ns, nlast.keys[i])]
  /\ nlast.op \in {"set", "mset"} =>
       \A i \in 1..Len(nlast.keys) :
          MapGet(store.cache, Prefixed(nlast.ns, nlast.keys[i])).value = nlast.val
  /\ nlast.op = "delete" => ~MapHas(store.cache, Prefixed(nlast.ns, nlast.keys[1]))
  /\ nlast.op = "get" =>
       nlast.val = IF MapHas(store.cache, Prefixed(nlast.ns, nlast.keys[1]))
                   THEN MapGet(store.cache, Prefixed(nlast.ns, nlast.keys[1])).value
                   ELSE Null
  /\ nlast.op = "has" =>
       (nlast.val = "true" <=> MapHas(store.cache, Prefixed(nlast.ns, nlast.keys[1])))
  /\ nlast.op = "mget" => nlast.ret = HeldOf(nlast.ns, nlast.keys)

\* C17: get, set, delete, has, mget and mset of a manager with namespace ns
\* address ns + ":" + k (k itself without a namespace); mget returns the
\* caller's own keys, and every key that keys returns is a key of the caller:
\* used again through the same manager it addresses an entry of the adapter.
C17_NamespacedKeysRoundTrip ==
  /\ KeyedCallsPrefixed
  /\ nlast.op = "keys" =>
       \A i \in 1..Len(nlast.ret) : MapHas(store.cache, Prefixed(nlast.ns, nlast.ret[i]))

\* C18: clear() without a pattern through a manager with namespace ns removes
\* the entries whose adapter key begins with ns + ":" and leaves every other
\* entry of the adapter as it was.
C18_ClearWithoutPatternKeepsOthers ==
  [][(nlast'.op = "clear" /\ nlast'.pattern = NoPattern /\ nlast'.ns # << >>) =>
        store'.cache = SelectSeq(store.cache,
                                 LAMBDA e : ~StartsWith(e.key, nlast'.ns \o <<":">>))]_vars

\* An anchored glob as specified: '*' stands for any run of characters, every
\* other character for itself, and the whole key has to match.
RECURSIVE AnchoredGlob(_, _)
AnchoredGlob(p, str) ==
  IF p = << >> THEN str = << >>
  ELSE IF Head(p) = "*"
       THEN AnchoredGlob(Tail(p), str) \/ (str # << >> /\ AnchoredGlob(p, Tail(str)))
       ELSE str # << >> /\ Head(str) = Head(p) /\ AnchoredGlob(Tail(p), Tail(str))

\* C19: clear(pattern) removes exactly the stored keys the pattern matches as
\* an anchored glob and leaves the other entries as they were, keys(pattern)
\* lists exactly those keys, and clear() and keys() without a pattern take
\* every entry.
C19_GlobClearAndKeys ==
  [][/\ (nlast'.op = "clear" /\ nlast'.pattern # NoPattern) =>
          store'.cache = SelectSeq(store.cache,
                                   LAMBDA e : ~AnchoredGlob(nlast'.pattern, e.key))
     /\ (nlast'.op = "clear" /\ nlast'.pattern = NoPattern) => store'.cache = << >>
     /\ (nlast'.op = "keys" /\ nlast'.pattern # NoPattern) =>
          nlast'.ret = SelectSeq(MapKeys(store.cache),
                                 LAMBDA k : AnchoredGlob(nlast'.pattern, k))
     /\ (nlast'.op = "keys" /\ nlast'.pattern = NoPattern) =>
          nlast'.ret = MapKeys(store.cache)]_vars

\* The step leaves the counters with h more hits and m more misses.
Counted(h, m) == mem'.hits = mem.hits + h /\ mem'.misses = mem.misses + m

\* C20: a get and a has each add one to hits when the key is stored and not
\* past its expiry and one to misses otherwise, mget does so for each of its
\* keys, no other call changes the counters, and stats reports them.
C20_CountersPerLookup ==
  [][CASE last'.op \in {"get", "has"} ->
            IF Live(mem, last'.key) THEN Counted(1, 0) ELSE Counted(0, 1)
       [] last'.op = "mget" ->
            LET n == Len(last'.key)
                h == Cardinality({i \in 1..n : Live(mem, last'.key[i])})
            IN Counted(h, n - h)
       [] last'.op = "stats" ->
            /\ Counted(0, 0)
            /\ last'.ret.hits = mem.hits /\ last'.ret.misses = mem.misses
       [] OTHER -> Counted(0, 0)]_vars

\* Caller c is executing the method behind a stampedeLock decorator for key k.
Executing(c, k) ==
  racing[c].pc = "method" /\ racing[c].key = k /\ racing[c].lock

\* C21: with stampedeLock the method is not executed by two callers at once
\* for the same key: while one caller's execution is under way, no other
\* caller that missed the same key is executing it too.
C21_StampedeLockSingleExecution ==
  \A k \in WrapKeys : \A c1, c2 \in Callers :
     (Executing(c1, k) /\ Executing(c2, k)) => c1 = c2

\* The text of the value reached from v along a dotted path: the empty string
\* when a step of the path is null or undefined
RECURSIVE TextAt(_, _)
TextAt(v, path) ==
  IF v.type \in {"null", "undefined"} THEN ""
  ELSE IF path = << >> THEN v.str
  ELSE IF \E i \in 1..Len(v.props) : v.props[i].name = Head(path)
       THEN TextAt(v.props[CHOOSE i \in 1..Len(v.props) : v.props[i].name = Head(path)].val,
                   Tail(path))
       ELSE ""

\* The n-th of the arguments, undefined when n is out of range
NthArg(args, part) ==
  LET n == ParseInt(part) IN IF n < Len(args) THEN args[n + 1] ELSE UndefinedValue

\* A selector is an index, or a dotted path from an index
Indexed(parts) == parts # << >> /\ IsIndex(Head(parts))

\* A selector is a parameter name followed by a dotted path
NamedPath(parts) == Len(parts) >= 2 /\ ~IsIndex(Head(parts))

\* The key in which each piece of the pattern stands for what f gives it
KeyBy(f(_), pattern) == SelectSeq([i \in 1..Len(pattern) |-> f(pattern[i])], LAMBDA s : s # "")

C23_NamedPathDropsHead ==
  LET Claimed(piece) == IF piece.kind = "lit" THEN piece.text
                        ELSE TextAt(NthArg(klast.args, "0"), Tail(piece.parts))
  IN (klast.pattern # << >>
      /\ \A i \in 1..Len(klast.pattern) :
            klast.pattern[i].kind = "sel" => NamedPath(klast.pattern[i].parts))
       => klast.key = KeyBy(Claimed, klast.pattern)

\* The step performs the eviction of a call with allEntries and the
\* namespace option n: before the invocation, or after it.
ClearsNamespace(n) ==
  \/ /\ dcall = NoDeco /\ dcall'.op = "evict" /\ dcall'.evicted
     /\ dcall'.options.allEntries /\ dcall'.options.namespace = n
  \/ /\ dcall.pc = "after" /\ dlast'.evicted /\ ~dlast'.threw
     /\ dcall.options.allEntries /\ dcall.options.namespace = n

\* C24: the eviction of a call with allEntries and the namespace option n
\* removes every entry whose key (as the manager's callers write it) has the
\* form n:... and leaves every other entry as it was.
C24_AllEntriesClearsNamespace ==
  [][\A n \in OptionNamespaces :
       ClearsNamespace(n) =>
         store'.cache =
           SelectSeq(store.cache,
                     LAMBDA e : ~StartsWith(RemoveNamespace(Namespace, e.key),
                                            n \o <<":">>))]_vars

\* C25: an eviction that fails is raised to the caller.  After the
\* invocation: the method has run once and succeeded, the caller gets the
\* eviction's failure, and the cache is left as it was (the stale entry stays).
\* Before the invocation: the caller gets the failure and the method is not
\* invoked.
C25_EvictionFailureRaised ==
  /\ [][/\ (dcall.pc = "after" /\ dcall' = NoDeco /\ ~dlast'.evicted) =>
             /\ dlast'.threw /\ dlast'.ret = "cacheError"
             /\ store' = store
        /\ (dcall = NoDeco /\ dlast'.op = "evict" /\ dlast'.manager = "found") =>
             /\ dlast'.threw /\ dlast'.ret = "cacheError" /\ dlast'.invoked = 0
             /\ store' = store /\ dcall' = NoDeco]_vars
  /\ []((dlast.op = "evict" /\ dlast.ret = "cacheError") =>
          /\ dlast.threw
          /\ IF dlast.options.beforeInvocation
             THEN dlast.invoked = 0 /\ dlast.result = "none"
             ELSE /\ dlast.invoked = 1 /\ dlast.result \notin {"none", "throw"}
                  /\ (dlast.present /\ dlast.options.keyGiven) =>
                        MapHas(store.cache, BuildKey(dlast.key)))

\* C25 witness: the eviction after a successful method has failed; the caller
\* got the failure and the entry is still cached.
C25_Witness ==
  /\ dlast.op = "evict" /\ dlast.threw /\ dlast.ret = "cacheError"
  /\ ~dlast.options.beforeInvocation /\ dlast.options.keyGiven
  /\ dlast.invoked = 1 /\ dlast.result = "v1" /\ dlast.present
  /\ MapHas(store.cache, BuildKey(dlast.key))

\* The entries a set or mset writes: one for set, the list for mset
WrittenEntries(w) ==
  IF w.op = "set" THEN <<[key |-> w.key, value |-> w.value]>> ELSE w.entries

\* The expiry a MemoryAdapter gives an entry set now with a ttl
ExpiryFor(ttl) == IF Truthy(ttl) THEN now + ttl * MsPerSecond ELSE 0

\* C26: set and mset write each tier with the explicit ttl whenever one is
\* given, whatever its value, and with that tier's default otherwise.  (When
\* the call has returned with success, each entry it wrote is in the cold
\* tier, and in the hot tier unless evicted, with the expiry of that ttl.)
C26_ExplicitTtlOrTierDefault ==
  (tlast.op \in {"set", "mset"} /\ tlast.ret = "ok") =>
    LET given == tlast.w.ttl # Undefined
        hotTTL == IF given THEN tlast.w.ttl ELSE L1TTL
        coldTTL == IF given THEN tlast.w.ttl ELSE L2TTL
        es == WrittenEntries(tlast.w)
    IN \A i \in 1..Len(es) :
         /\ MapHas(l2.cache, es[i].key)
         /\ MapGet(l2.cache, es[i].key).expiresAt = ExpiryFor(coldTTL)
         /\ MapHas(l1.cache, es[i].key) =>
              MapGet(l1.cache, es[i].key).expiresAt = ExpiryFor(hotTTL)

\* C27: an entry with a ttl is live only strictly before its expiry instant:
\* a get or has at that instant (the current time equal to expiresAt) or
\* after it yields null / false and leaves the key absent.
C27_AbsentFromExpiryInstant ==
  (/\ last.op \in {"get", "has"}
   /\ last.pre # NoEntry /\ last.pre.expiresAt # 0
   /\ last.pre.expiresAt <= now)
    => /\ last.ret = (IF last.op = "get" THEN Null ELSE "false")
       /\ ~MapHas(mem.cache, last.key)

\* C28: when set completes towards the caller, with success or with a
\* failure, both tier writes have finished, and no tier write of the call
\* takes effect after the caller has got the outcome.
C28_SetAwaitsBothWrites ==
  [][/\ (tlast'.op = "set") =>
          (tlast'.hot # "pending" /\ tlast'.cold # "pending" /\ call' = NoCall)
     /\ (tlast'.op = "late" /\ tlast'.w.op = "set") =>
          (l1' = l1 /\ l2' = l2)]_vars

\* The step settles one of the two tier writes of a clear with pattern p.
PatternClearStep(p) ==
  /\ PatternGiven(p)
  /\ \/ call = NoCall /\ call'.op = "clear" /\ call'.w.key = p
     \/ call.op = "clear" /\ call.w.key = p /\ call' = NoCall

\* The write that settles in the step is the tier's, and it succeeds.
HotLands ==
  \/ call = NoCall /\ call'.hot = "ok"
  \/ call.hot = "pending" /\ tlast'.hot = "ok"

ColdLands ==
  \/ call = NoCall /\ call'.cold = "ok"
  \/ call.cold = "pending" /\ tlast'.cold = "ok"

Unmatched(cache, p) == SelectSeq(cache, LAMBDA e : ~GlobMatch(p, e.key))

\* C29 (as claimed): clear(pattern) is delegated to the cold tier only; the
\* content of the hot tier is unchanged.
C29_PatternClearColdOnly ==
  [][\A p \in TierPatterns :
       PatternClearStep(p) =>
         /\ l1' = l1
         /\ l2'.cache = IF ColdLands THEN Unmatched(l2.cache, p) ELSE l2.cache]_vars

\* C29: clear(pattern) is handed to both tiers with the pattern: each tier
\* whose clear succeeds loses exactly its keys that match the pattern, and a
\* tier whose clear fails is left as it is.
C29_PatternClearBothTiers ==
  [][\A p \in TierPatterns :
       PatternClearStep(p) =>
         /\ l1'.cache = IF HotLands THEN Unmatched(l1.cache, p) ELSE l1.cache
         /\ l2'.cache = IF ColdLands THEN Unmatched(l2.cache, p) ELSE l2.cache]_vars

\* C29 witness: a clear with the pattern a* has returned with success; neither
\* tier holds the key a, and both still hold the key b.
C29_Witness ==
  /\ tlast.op = "clear" /\ tlast.ret = "ok" /\ tlast.key = <<"a", "*">>
  /\ ~MapHas(l1.cache, <<"a">>) /\ ~MapHas(l2.cache, <<"a">>)
  /\ MapHas(l1.cache, <<"b">>) /\ MapHas(l2.cache, <<"b">>)

\* The [key, value] pairs of a result list, the keys of a key list, and the
\* pairs a tier holds of the requested keys
PairSet(entries) == {entries[i] : i \in 1..Len(entries)}
SeqSet(ks) == {ks[i] : i \in 1..Len(ks)}
HeldPairs(s, ks) ==
  {[key |-> k, value |-> MapGet(s.cache, k).value] : k \in {x \in SeqSet(ks) : Live(s, x)}}

\* C30: mget returns exactly the requested keys that are live in the hot
\* tier (when it is asked) or in the cold tier (when it is asked), with their
\* values; the cold tier is asked for the keys the hot tier did not resolve
\* and for no other; the backfill is one write to the hot tier of exactly what
\* the cold tier resolved, with the values returned, and none is started when
\* the cold tier resolved nothing.
C30_MgetMergeAndBackfill ==
  /\ [][/\ (call = NoCall /\ call'.op = "mget") =>
             /\ PairSet(call'.w.entries) = HeldPairs(l1, call'.w.key)
             /\ KeySet(call'.w.entries) # SeqSet(call'.w.key)
             /\ tasks' = tasks
        /\ (call = NoCall /\ tlast'.op = "mget" /\ tlast'.ret = "ok") =>
             /\ PairSet(tlast'.rets) = HeldPairs(l1, tlast'.keys)
             /\ KeySet(tlast'.rets) = SeqSet(tlast'.keys)
             /\ tlast'.cold = "unqueried" /\ tasks' = tasks /\ l2' = l2
        /\ (call.op = "mget" /\ tlast'.op = "mget" /\ tlast'.ret = "ok") =>
             /\ SeqSet(tlast'.asked) = SeqSet(tlast'.keys) \ KeySet(call.w.entries)
             /\ PairSet(tlast'.colds) = HeldPairs(l2, tlast'.asked)
             /\ PairSet(tlast'.rets) = PairSet(call.w.entries) \cup PairSet(tlast'.colds)
             /\ Len(tlast'.rets) = Cardinality(KeySet(tlast'.rets))
             /\ IF tlast'.colds = << >> THEN tasks' = tasks
                ELSE /\ Len(tasks') = Len(tasks) + 1
                     /\ SubSeq(tasks', 1, Len(tasks)) = tasks
                     /\ LET task == tasks'[Len(tasks')]
                        IN /\ task.kind = "backfill" /\ task.tier = "l1"
                           /\ task.w.op = "mset"
                           /\ PairSet(task.w.entries) = PairSet(tlast'.colds)
                           /\ PairSet(task.w.entries) \subseteq PairSet(tlast'.rets)]_vars
  /\ [][(tlast'.op = "backfill" /\ tlast'.ret = "stored" /\ tlast'.w.op = "mset") =>
          /\ l2' = l2
          /\ \A k \in TierKeys :
               IF k \in KeySet(tlast'.w.entries)
               THEN MapHas(l1'.cache, k) =>
                      [key |-> k, value |-> MapGet(l1'.cache, k).value]
                        \in PairSet(tlast'.w.entries)
               ELSE MapHas(l1'.cache, k) => MapGet(l1'.cache, k) = MapGet(l1.cache, k)
          /\ \E k \in KeySet(tlast'.w.entries) : MapHas(l1'.cache, k)]_vars

\* C30 witness: an mget of two keys has returned one from the hot tier and
\* one from the cold tier, and the backfill of the latter is in flight.
C30_Witness ==
  /\ tlast.op = "mget" /\ tlast.ret = "ok" /\ Len(tlast.keys) = 2
  /\ Len(tlast.hots) = 1 /\ Len(tlast.colds) = 1 /\ Len(tlast.rets) = 2
  /\ tasks # << >>
  /\ tasks[Len(tasks)].w.entries = tlast.colds

\* The eviction of the returned @TurboCacheEvict call was attempted: it was
\* performed, or it failed.
EvictionAttempted == dlast.evicted \/ dlast.ret = "cacheError"

Accepts(condition, result) == ~condition.given \/ result \in condition.accepts

\* C31 (as claimed): the condition gates the eviction after the invocation
\* only: there the eviction runs exactly when the condition is absent or
\* holds of the method's result; before the invocation the condition is not
\* consulted and the eviction always runs.
C31_ConditionGatesAfterOnly ==
  (dlast.op = "evict" /\ dlast.manager = "found") =>
    IF dlast.options.beforeInvocation
    THEN EvictionAttempted
    ELSE /\ dlast.result = "throw" => ~EvictionAttempted
         /\ dlast.result # "throw" =>
              (EvictionAttempted <=> Accepts(dlast.options.condition, dlast.result))

\* C31 (amended): the condition gates the eviction in both timings.  After
\* the invocation it is asked about the method's result; before the
\* invocation it is asked about null, the result not being there yet.  An
\* eviction of a key that is performed leaves the key absent.
C31_ConditionGatesBothTimings ==
  /\ []((dlast.op = "evict" /\ dlast.manager = "found") =>
          IF dlast.options.beforeInvocation
          THEN EvictionAttempted <=> Accepts(dlast.options.condition, Null)
          ELSE /\ dlast.result = "throw" => ~EvictionAttempted
               /\ dlast.result # "throw" =>
                    (EvictionAttempted <=> Accepts(dlast.options.condition, dlast.result)))
  /\ [][/\ (EvictEnters(TRUE) /\ dcall'.options.keyGiven) =>
             IF Accepts(dcall'.options.condition, Null)
             THEN ~MapHas(store'.cache, BuildKey(dcall'.key))
             ELSE store' = store
        /\ (dcall.pc = "after" /\ dcall' = NoDeco /\ dlast'.evicted /\ dcall.options.keyGiven) =>
             ~MapHas(store'.cache, BuildKey(dcall.key))
        /\ (dcall.pc = "method" /\ dcall.op = "evict" /\ dcall' = NoDeco) =>
             store' = store]_vars

\* C31 witness: a call with beforeInvocation and a condition that holds of
\* the method's result and not of null has returned that result; nothing was
\* evicted and the entry that was there is still cached.
C31_Witness ==
  /\ dlast.op = "evict" /\ dlast.options.beforeInvocation /\ dlast.options.keyGiven
  /\ dlast.options.condition = [given |-> TRUE, accepts |-> Values]
  /\ dlast.result = "v1" /\ dlast.ret = "v1" /\ ~dlast.threw
  /\ dlast.present /\ ~dlast.evicted
  /\ MapHas(store.cache, BuildKey(dlast.key))

\* C32: the sweep, run by the timer or by stats(), removes every entry whose
\* expiry is past and nothing else: the other entries keep key, value, expiry
\* and position, and the counters are unchanged; stats reports what is left.
C32_SweepRemovesExactlyExpired ==
  [][(last'.op \in {"cleanup", "stats"}) =>
       /\ mem'.cache = SelectSeq(mem.cache,
                                 LAMBDA e : ~(e.expiresAt # 0 /\ e.expiresAt < now))
       /\ mem'.hits = mem.hits /\ mem'.misses = mem.misses /\ mem'.max = mem.max
       /\ last'.op = "stats" =>
            last'.ret = [hits |-> mem.hits, misses |-> mem.misses,
                         keys |-> Len(mem'.cache)]]_vars

\* C32 witness: the sweep has removed an expired entry that no call had read
\* since it expired and has kept another entry.
C32_Witness ==
  /\ last.op = "cleanup"
  /\ last.pre # NoEntry /\ last.pre.expiresAt # 0 /\ last.pre.expiresAt < now
  /\ ~MapHas(mem.cache, last.pre.key)
  /\ mem.cache # << >>
  /\ mem.hits = 0 /\ mem.misses = 0

\* C33: once delete(k) has completed on both tiers and no set(k) is issued
\* afterwards, every later get(k) returns null, whatever backfill was in
\* flight.  (No call is in progress and the cold tier lacks k: a delete of k
\* has completed, or k was never set.  The get that starts then returns null:
\* at once it does not return a value, and it returns null after asking the
\* cold tier.)
C33_NoValueAfterDelete ==
  [][/\ (call = NoCall /\ tlast'.op = "get" /\ ~MapHas(l2.cache, tlast'.key)) =>
          tlast'.ret = Null
     /\ (call.op = "get" /\ tlast'.op = "get" /\ ~MapHas(l2.cache, tlast'.key)) =>
          tlast'.ret = Null]_vars

\* C34: once an eviction of key k has completed, no store of a value that a
\* @TurboCache or @TurboCachePut call computed before lands and puts k back.
\* (The step after the return of a @TurboCacheEvict call that evicted k is
\* not the landing of a store of k: such a store was started before the call
\* returned, no other call having been made since.)
C34_NoStaleStoreAfterEviction ==
  [][(/\ dlast.op = "evict" /\ dlast.evicted /\ ~dlast.threw
      /\ dlast.options.keyGiven) =>
       ~(/\ dlast'.op = "store" /\ dlast'.ret = "stored" /\ dlast'.key = dlast.key
         /\ dlast'.task.value \in Values
         /\ MapGet(store'.cache, BuildKey(dlast.key)).value = dlast'.task.value)]_vars

\* C35: when the set calls on a key, concurrent or not, have all completed
\* without failure (no tier write is in flight), the hot tier and the cold
\* tier hold the same value for the key, whatever the order in which the tier
\* writes landed.
C35_TiersAgreeAfterConcurrentSets ==
  (tasks = << >>) =>
    \A k \in TierKeys :
      (MapHas(l1.cache, k) /\ MapHas(l2.cache, k)) =>
        MapGet(l1.cache, k).value = MapGet(l2.cache, k).value

\* The key is stored in the manager's cache s with the value null.
NullStoredIn(s, k) ==
  MapHas(s.cache, BuildKey(k)) /\ MapGet(s.cache, BuildKey(k)).value = Null

NullStored(k) == NullStoredIn(store, k)

\* C36: a cached null is a miss.  A null that compute returns is stored; a
\* wrap or @TurboCache call that finds the key stored and unexpired with the
\* value null invokes compute again (it does not return at its lookup); mget
\* returns the requested keys that are stored with a value other than null,
\* and so omits such a key.
C36_CachedNullIsMiss ==
  /\ []((wlast.op = "wrap" /\ wlast.lookup = "ok" /\ wlast.present /\ wlast.cached = Null) =>
          wlast.invoked = 1)
  /\ []((dlast.op = "cache" /\ dlast.lookup = "ok" /\ dlast.present /\ dlast.cached = Null) =>
          dlast.invoked = 1)
  /\ [][/\ \A k \in WrapKeys :
             (NullStored(k) /\ WrapLookup(k, NoWrap.options, TRUE)) =>
               (wcall'.pc = "factory" /\ wcall'.key = k)
        /\ \A k \in WrapKeys :
             (NullStored(k) /\ CacheLookup(k, NoOptions, TRUE, TRUE)) =>
               (dcall'.pc = "method" /\ dcall'.key = k)
        /\ (wcall.pc = "set" /\ wlast'.stored /\ wcall.computed = Null) =>
             NullStoredIn(store', wcall.key)
        /\ (dlast'.op = "store" /\ dlast'.ret = "stored" /\ dlast'.task.value = Null) =>
             NullStoredIn(store', dlast'.key)
        /\ \A ks \in NullKeyLists :
             NsMget(Namespace, ks) =>
               nlast'.ret = SelectSeq(ks, LAMBDA k : /\ MapHas(store.cache, BuildKey(k))
                                                    /\ ~NullStored(k))]_vars

\* C36 witness: a wrap call found the key stored with the value null, invoked
\* its compute and returned the value computed.
C36_Witness ==
  /\ wlast.op = "wrap" /\ wlast.present /\ wlast.cached = Null
  /\ wlast.invoked = 1 /\ wlast.computed = "v1" /\ wlast.ret = "v1"

\* The set in progress on the MultiTierAdapter, or started by this step
SetInHand == IF call = NoCall THEN call'.w ELSE call.w

\* C37: a ttl of 0 is never an immediate expiry.  MemoryAdapter.set(k, v, 0)
\* leaves what a set without ttl leaves, an entry with no expiry, and so does
\* CacheManager.set(k, v, 0), which hands the 0 to the adapter; an entry with
\* no expiry is returned by every later get.  MultiTierAdapter.set(k, v, 0)
\* writes each tier with that tier's default ttl, as a set without ttl does.
C37_ZeroTtlNeverExpiresAtOnce ==
  /\ [][\A k \in MemKeys, v \in Values :
          Set(k, v, 0) => /\ mem' = MemSet(mem, k, v, Undefined, now)
                          /\ MapGet(mem'.cache, k).expiresAt = 0]_vars
  /\ [][\A k \in MemKeys, v \in Values :
          MgrSet(k, v, 0, TRUE) => MapGet(store'.cache, BuildKey(k)).expiresAt = 0]_vars
  /\ [](last.op = "get" /\ last.pre # NoEntry /\ last.pre.expiresAt = 0
          => last.ret = last.pre.value)
  /\ [][\A k \in MemKeys :
          NsGet(Namespace, k) /\ MapHas(store.cache, BuildKey(k))
            /\ MapGet(store.cache, BuildKey(k)).expiresAt = 0
          => nlast'.val = MapGet(store.cache, BuildKey(k)).value]_vars
  /\ [][call' # call /\ SetInHand.op = "set" /\ SetInHand.ttl \in ZeroTTLs
          => /\ HotLands => MapGet(l1'.cache, SetInHand.key).expiresAt
                              = now + TierTTL("l1", Undefined) * MsPerSecond
             /\ ColdLands => MapGet(l2'.cache, SetInHand.key).expiresAt
                               = now + TierTTL("l2", Undefined) * MsPerSecond]_vars

\* after a clock tick a get returns the value a set with ttl 0 stored, the
\* manager holds an entry without expiry, and a set with ttl 0 has written
\* both tiers
C37_Witness ==
  /\ now > StartTime
  /\ last.op = "get" /\ last.pre.expiresAt = 0 /\ last.ret = "v1"
  /\ MapHas(store.cache, BuildKey(<<"a">>))
  /\ MapGet(store.cache, BuildKey(<<"a">>)).expiresAt = 0
  /\ tlast.op = "set" /\ tlast.ret = "ok" /\ tlast.w.ttl = 0
  /\ MapHas(l1.cache, <<"a">>) /\ MapHas(l2.cache, <<"a">>)

\* C38: keys(pattern) never lists a key whose entry has expired: at the
\* instant of the call, has answers true for every key it returns.
C38_KeysListsOnlyLiveKeys ==
  last.op = "keys" =>
    \A i \in 1..Len(last.ret) : MemHas(mem, last.ret[i], now).ret

\* The step is a tier write of the manager's write w: the first of its two
\* writes, or the second while w is in progress
WritesOf(w) ==
  \/ \E tier \in {"l1", "l2"} : TierWriteFirst(w, tier, TRUE)
  \/ call.w = w /\ TierWriteSecond(TRUE)

\* Every entry of write w that the tier's map holds (the tier may have evicted
\* one) has the expiry of ttl
StoredWithTtl(cache, w, ttl) ==
  \A i \in 1..Len(WrittenEntries(w)) :
    MapHas(cache, WrittenEntries(w)[i].key)
      => MapGet(cache, WrittenEntries(w)[i].key).expiresAt = now + ttl * MsPerSecond

\* C39: through a CacheManager, a set or mset issued without a ttl stores the
\* entry in the hot tier with the hot tier's default TTL and in the cold tier
\* with the cold tier's default TTL; the manager's default TTL does not
\* override the tiers' defaults.
C39_ManagedWriteUsesTierDefaults ==
  [][\A w \in {ManagedSet(k, "v1", Undefined) : k \in TierKeys}
            \cup {ManagedMset(ks, "v1", Undefined) : ks \in ManagedKeyLists} :
       WritesOf(w) =>
         /\ HotLands => StoredWithTtl(l1'.cache, w, TierTTL("l1", Undefined))
         /\ ColdLands => StoredWithTtl(l2'.cache, w, TierTTL("l2", Undefined))]_vars

\* The last @TurboCache call found no manager, or its lookup failed
LookupFailed == dlast.op = "cache" /\ (dlast.manager = "missing" \/ dlast.lookup = "fail")

LookupFailure == IF dlast.manager = "missing" THEN "managerError" ELSE "cacheError"

\* C40: in @TurboCache a failure of the lookup itself (the adapter's get
\* raises, or no CacheManager can be resolved) short-circuits the call: the
\* method is not invoked and no store is started, and the caller receives the
\* configured fallback (the literal, or the function's result for the
\* failure) if there is one, otherwise the cache failure.
C40_LookupFailureShortCircuits ==
  LookupFailed =>
    /\ dlast.invoked = 0 /\ dcall = NoDeco /\ ~dlast.started
    /\ CASE dlast.options.fallback = "literal" ->
              ~dlast.threw /\ dlast.ret = FallbackValue
         [] dlast.options.fallback = "function" ->
              ~dlast.threw /\ dlast.ret = FallbackOf(LookupFailure)
         [] OTHER -> dlast.threw /\ dlast.ret = LookupFailure

\* a call with a function fallback whose lookup failed returned the
\* fallback's result for the cache failure, the method not invoked
C40_Witness ==
  /\ LookupFailed /\ dlast.lookup = "fail"
  /\ dlast.options.fallback = "function"
  /\ dlast.ret = FallbackOf("cacheError") /\ dlast.invoked = 0

====
